---- MODULE Spec2Model ----
(***************************************************************************)
(* GlyphGL: the glyph atlas builder of glyph_atlas.h.                       *)
(*                                                                          *)
(* glyph_atlas_create is modelled one statement group per step: font load,  *)
(* charset counting, the three allocations, the rasterization loop, the     *)
(* bubble sort, the initial image, the packing loop with its row closure    *)
(* and its grow-and-restart branch, the last row and the return.            *)
(* glyph_atlas_find_char and glyph_atlas__next_pow2 are operators,          *)
(* glyph_atlas_free is an action of the caller.                             *)
(*                                                                          *)
(* C indices are 0-based; sequences here are 1-based, so the C element      *)
(* a[k] is a[k + 1] below.  Pointers are modelled by what they refer to,    *)
(* NULL by the value NULL.                                                  *)
(***************************************************************************)
EXTENDS Integers, Sequences, FiniteSets, TLC

(***************************************************************************)
(* Program constants                                                        *)
(***************************************************************************)
GLYPHGL_ATLAS_WIDTH == 2048
GLYPHGL_ATLAS_HEIGHT == 2048
GLYPH_ENCODING_UTF8 == 16
GLYPH_ENCODING_ASCII == 32
padding == 4
margin == 256
SPACE == 32
REPLACEMENT == 65533

(***************************************************************************)
(* Bounds of the model                                                      *)
(***************************************************************************)
MaxCharsetLen == 3
MaxSmallV == 70
RankBase == 1000

NULL == 0
LIVE == 1
UNINIT == -999999

(* the bytes a charset is built from: ' ', 'A' and the 2-byte lead 0xC3 *)
CharsetBytes == {32, 65, 195}
PixelHeights == {32}
(* what an int read from fresh heap memory can hold *)
GarbageValues == {0, -7}

(***************************************************************************)
(* Bit arithmetic on non-negative 32-bit ints                               *)
(***************************************************************************)
RECURSIVE BitOr(_, _)
BitOr(a, b) ==
    IF a = 0 THEN b
    ELSE IF b = 0 THEN a
    ELSE 2 * BitOr(a \div 2, b \div 2) + (IF (a % 2 = 1) \/ (b % 2 = 1) THEN 1 ELSE 0)

RECURSIVE BitAnd(_, _)
BitAnd(a, b) ==
    IF a = 0 \/ b = 0 THEN 0
    ELSE 2 * BitAnd(a \div 2, b \div 2) + (IF (a % 2 = 1) /\ (b % 2 = 1) THEN 1 ELSE 0)

RECURSIVE Pow2(_)
Pow2(n) == IF n = 0 THEN 1 ELSE 2 * Pow2(n - 1)

Shr(v, n) == v \div Pow2(n)
Shl(v, n) == v * Pow2(n)

IsPow2(v) == \E k \in 0..30 : v = Pow2(k)

(* v |= v >> n *)
OrShift(v, n) == BitOr(v, Shr(v, n))

(* glyph_atlas__next_pow2 without the leading v--: a slip that turns every
   exact power of two into the next one *)
next_pow2_no_decrement(v) ==
    OrShift(OrShift(OrShift(OrShift(OrShift(v, 1), 2), 4), 8), 16) + 1

glyph_atlas__next_pow2(v) ==
    LET v0 == v - 1
        v1 == OrShift(v0, 1)
        v2 == OrShift(v1, 2)
        v3 == OrShift(v2, 4)
        v4 == OrShift(v3, 8)
        v5 == OrShift(v4, 16)
    IN  v5 + 1

(* (int)sqrtf(x) for 0 <= x < 2^24: the int converts to float exactly and
   the correctly rounded root never reaches the next integer, so the result
   is the integer square root. *)
RECURSIVE IsqrtBin(_, _, _)
IsqrtBin(x, lo, hi) ==
    IF hi - lo <= 1 THEN lo
    ELSE LET mid == (lo + hi) \div 2
         IN  IF mid * mid <= x THEN IsqrtBin(x, mid, hi) ELSE IsqrtBin(x, lo, mid)

int_sqrtf(x) == IsqrtBin(x, 0, 4097)

(***************************************************************************)
(* The charset string: bytes followed by the NUL terminator                 *)
(***************************************************************************)
strlen(str) == Len(str)

(* str[k] for a C index k; k = strlen is the terminator *)
ByteAt(str, k) == IF k < Len(str) THEN str[k + 1] ELSE 0

(* a decoder that takes every byte above 0x7F for the lead of a 2-byte
   sequence *)
utf8_decode_two_bytes(str, index) ==
    LET c == ByteAt(str, index)
        c2 == ByteAt(str, index + 1)
    IN  IF c < 128 THEN [cp |-> c, index |-> index + 1]
        ELSE [cp |-> BitOr(Shl(BitAnd(c, 31), 6), BitAnd(c2, 63)), index |-> index + 2]

(* glyph_atlas_utf8_decode: the codepoint and the index after the call *)
glyph_atlas_utf8_decode(str, index) ==
    LET c == ByteAt(str, index)
        c2 == ByteAt(str, index + 1)
        c3 == ByteAt(str, index + 2)
        c4 == ByteAt(str, index + 3)
    IN  IF c < 128 THEN [cp |-> c, index |-> index + 1]
        ELSE IF BitAnd(c, 224) = 192 THEN
            [cp |-> BitOr(Shl(BitAnd(c, 31), 6), BitAnd(c2, 63)), index |-> index + 2]
        ELSE IF BitAnd(c, 240) = 224 THEN
            [cp |-> BitOr(BitOr(Shl(BitAnd(c, 15), 12), Shl(BitAnd(c2, 63), 6)),
                          BitAnd(c3, 63)),
             index |-> index + 3]
        ELSE IF BitAnd(c, 248) = 240 THEN
            [cp |-> BitOr(BitOr(BitOr(Shl(BitAnd(c, 7), 18), Shl(BitAnd(c2, 63), 12)),
                                Shl(BitAnd(c3, 63), 6)),
                          BitAnd(c4, 63)),
             index |-> index + 4]
        ELSE [cp |-> REPLACEMENT, index |-> index + 1]

(* the counting loop: while (idx < strlen(charset)) { decode; charset_len++ } *)
RECURSIVE CountUtf8(_, _, _)
CountUtf8(str, idx, n) ==
    IF idx < strlen(str)
    THEN CountUtf8(str, glyph_atlas_utf8_decode(str, idx).index, n + 1)
    ELSE n

(* a counting pass that drops repeated bytes: what a deduplicating
   implementation would compute *)
CountDistinct(str, type) == Cardinality({str[k] : k \in 1..Len(str)})

CountCodepoints(str, type) ==
    IF type = GLYPH_ENCODING_UTF8 THEN CountUtf8(str, 0, 0) ELSE strlen(str)

(***************************************************************************)
(* The font: what glyph_ttf_find_glyph_index, glyph_ttf_get_glyph_bitmap    *)
(* and glyph_ttf_get_glyph_advance answer.  A glyph is the bitmap the       *)
(* rasterizer returns for it (bitmap = FALSE is a NULL bitmap) and its      *)
(* advance already multiplied by the scale and truncated.                   *)
(***************************************************************************)
Glyph(w, h, yo) ==
    [bitmap |-> TRUE, width |-> w, height |-> h, xoff |-> 1, yoff |-> yo,
     advance |-> w + 2]

EmptyGlyph ==
    [bitmap |-> FALSE, width |-> 0, height |-> 0, xoff |-> 0, yoff |-> 0,
     advance |-> 8]

(* outlines a font may hold: blank; wide and low, with its top 8 pixels
   above the baseline, on it, or 2040 pixels above it; wide and nearly as
   tall as the minimum atlas; thin and taller than twice the minimum atlas *)
GlyphShapes ==
    { EmptyGlyph,
      Glyph(1000, 10, -8),
      Glyph(1000, 10, 0),
      Glyph(1000, 10, -2040),
      Glyph(1000, 2040, -8),
      Glyph(10, 5000, 0) }

(* a pixel height at which two rows of glyphs do not fit the minimum atlas *)
TallPixelHeights == {1100}

(* outlines of a font rasterized at such a height: blank; wide and half as
   tall as the minimum atlas, with yoff -8 or -1030; wide and lower, with a
   positive yoff *)
TallShapes ==
    { EmptyGlyph,
      Glyph(1000, 1030, -8),
      Glyph(1000, 1030, -1030),
      Glyph(1000, 600, 5) }

(* the outlines the rasterizer can answer with at a pixel height *)
ShapesAt(ph) == IF ph \in TallPixelHeights THEN TallShapes ELSE GlyphShapes

(* glyph index 0 is .notdef; a mapped codepoint cp has glyph index cp *)
NOTDEF == 0

VARIABLES
    pc,            \* where glyph_atlas_create (or its caller) stands
    charset,       \* bytes of the charset argument, terminator excluded
    char_type,     \* GLYPH_ENCODING_UTF8 or GLYPH_ENCODING_ASCII
    pixel_height,  \* the pixel_height argument
    use_sdf,       \* the use_sdf argument
    font_cmap,     \* codepoint -> glyph index, for the codepoints looked up
    font_glyphs,   \* glyph index -> glyph, for the glyphs rasterized
    atlas,         \* the glyph_atlas_t being built, then returned
    charset_len,
    temp_glyphs,
    charset_idx,
    ras_i,         \* i of the rasterization loop
    total_width,
    max_height,
    glyph_order,
    atlas_width,
    atlas_height,
    pen_x,
    pen_y,
    row_height,
    current_row,
    order_idx,
    grows,         \* how often the atlas was doubled
    wild_write,    \* a blit wrote outside the image buffer
    heap,          \* every block or object obtained so far -> times released
    v_in,          \* argument of a glyph_atlas__next_pow2 call
    v_out,         \* its result
    cps,           \* the codepoints a well-formed charset was encoded from
    decoded,       \* the codepoints decoded from the charset so far
    text,          \* bytes of a text handed to glyph_utf8_decode
    idx_in,        \* *index before the call
    idx_out,       \* *index after the call
    cp_out,        \* the value the call returned
    draw,          \* the locals of a glyph_renderer_draw_text call
    renderer,      \* the glyph_renderer_t of the caller, its atlas excepted
    effect_arg,    \* the effect argument of glyph_renderer_create
    gl,            \* what the GL layer was asked to do
    calls          \* calls made on the renderer since its creation

vars ==
    << pc, charset, char_type, pixel_height, use_sdf, font_cmap, font_glyphs, atlas,
       charset_len, temp_glyphs, charset_idx, ras_i, total_width, max_height,
       glyph_order, atlas_width, atlas_height, pen_x, pen_y, row_height,
       current_row, order_idx, grows, wild_write, heap, v_in, v_out,
       cps, decoded, text, idx_in, idx_out, cp_out, draw, renderer, effect_arg,
       gl, calls >>

createLocals ==
    << charset_len, temp_glyphs, charset_idx, ras_i, total_width, max_height,
       glyph_order, atlas_width, atlas_height, pen_x, pen_y, row_height,
       current_row, order_idx, grows, wild_write >>

packLocals ==
    << atlas_width, atlas_height, pen_x, pen_y, row_height, current_row,
       order_idx, grows, wild_write >>

inputs == << charset, char_type, pixel_height, use_sdf >>
fontVars == << font_cmap, font_glyphs >>
pow2Vars == << v_in, v_out >>
decodeVars == << cps, decoded >>
textVars == << text, idx_in, idx_out, cp_out, draw >>
rendererVars == << renderer, effect_arg, gl, calls >>
sideVars == << pow2Vars, decodeVars, textVars, rendererVars >>

(* no charset is being decoded on its own *)
DecodeIdle == cps = << >> /\ decoded = << >>

(* no glyph_renderer_draw_text call is under way *)
NoDraw ==
    [i |-> 0, vertex_count |-> 0, effects |-> 0, capacity |-> 0, uploaded |-> 0,
     last |-> [codepoint |-> 0, quads |-> 0, advance |-> 0]]

(* glyph_utf8_decode is not being called, nothing is drawn *)
TextIdle ==
    text = << >> /\ idx_in = 0 /\ idx_out = 0 /\ cp_out = 0 /\ draw = NoDraw

(* glyph_renderer_t renderer = {0} *)
ZeroRenderer ==
    [initialized |-> 0, texture |-> 0, shader |-> 0, vao |-> 0, vbo |-> 0,
     vertex_buffer |-> NULL, vertex_buffer_size |-> 0, char_type |-> 0,
     effect |-> [type |-> 0, vertex_shader |-> "", fragment_shader |-> ""]]

(* no GL call made, no call made on the renderer *)
NoGL ==
    [program_src |-> << >>, misuse |-> FALSE,
     last |-> [op |-> "none", null |-> FALSE]]

(* no renderer is being created *)
RendererIdle ==
    renderer = ZeroRenderer /\ effect_arg = "NULL" /\ gl = NoGL /\ calls = 0

(* glyph_image_t *)
NoImage == [data |-> NULL, width |-> 0, height |-> 0, blits |-> << >>]

(* glyph_image_create(w, h): a zero-filled w x h image *)
glyph_image_create(w, h) == [data |-> LIVE, width |-> w, height |-> h, blits |-> << >>]

(* glyph_atlas_t atlas = {0} *)
ZeroAtlas ==
    [image |-> NoImage, chars |-> NULL, entries |-> << >>, num_chars |-> 0,
     pixel_height |-> 0]

(* a glyph_atlas_char_t as GLYPH_MALLOC hands it out *)
FreshChar ==
    [codepoint |-> UNINIT, x |-> UNINIT, y |-> UNINIT, width |-> UNINIT,
     height |-> UNINIT, xoff |-> UNINIT, yoff |-> UNINIT, advance |-> UNINIT]

(***************************************************************************)
(* The heap: every block GLYPH_MALLOC, the font loader, the rasterizer, the *)
(* SDF generator or glyph_image_create handed out, named by what it holds   *)
(* and a number, with the number of times it was released.                  *)
(***************************************************************************)
FontRes == << "font", 0 >>
CharsRes == << "chars", 0 >>
TempGlyphsRes == << "temp_glyphs", 0 >>
GlyphOrderRes == << "glyph_order", 0 >>
CurrentRowRes == << "current_row", 0 >>
CoverageRes(i) == << "coverage", i >>
SdfRes(i) == << "sdf", i >>
ImageRes(k) == << "image", k >>

(* a block is handed out *)
Alloc(h, r) == (r :> 0) @@ h

(* a block is released *)
Release(h, r) == [h EXCEPT ![r] = @ + 1]

(* GLYPH_FREE(p) and the like for a p that may be NULL *)
ReleaseIf(h, r, set) == IF set THEN Release(h, r) ELSE h

(* the block was handed out at some time *)
Allocated(h, r) == r \in DOMAIN h

Charsets == UNION { [1..n -> CharsetBytes] : n \in 0..MaxCharsetLen }

(* the call is entered: nothing looked up, built or allocated yet *)
InitAtlasVars ==
    /\ font_cmap = << >>
    /\ font_glyphs = << >>
    /\ atlas = ZeroAtlas
    /\ charset_len = 0
    /\ temp_glyphs = << >>
    /\ charset_idx = 0
    /\ ras_i = 0
    /\ total_width = 0
    /\ max_height = 0
    /\ glyph_order = << >>
    /\ atlas_width = 0
    /\ atlas_height = 0
    /\ pen_x = 0
    /\ pen_y = 0
    /\ row_height = 0
    /\ current_row = << >>
    /\ order_idx = 0
    /\ grows = 0
    /\ wild_write = FALSE
    /\ heap = << >>

(* the entry of glyph_atlas_create, called on its own *)
InitCreate ==
    /\ pc = "load_font"
    /\ InitAtlasVars
    /\ v_in = 0
    /\ v_out = 0
    /\ DecodeIdle
    /\ TextIdle
    /\ RendererIdle

(* glyph_atlas_create(font_path, pixel_height, charset, char_type, 0) *)
Init ==
    /\ charset \in Charsets
    /\ char_type \in {GLYPH_ENCODING_UTF8, GLYPH_ENCODING_ASCII}
    /\ pixel_height \in PixelHeights
    /\ use_sdf = FALSE
    /\ InitCreate

(* the bytes of the charsets built with use_sdf: 'A' and 'B' *)
SdfCharsetBytes == {65, 66}

(* glyph_atlas_create for a byte charset at a large pixel height *)
InitGrow ==
    /\ charset \in UNION { [1..n -> SdfCharsetBytes] : n \in 0..MaxCharsetLen }
    /\ char_type = GLYPH_ENCODING_ASCII
    /\ pixel_height \in TallPixelHeights
    /\ use_sdf = FALSE
    /\ InitCreate

(* glyph_atlas_create for a byte charset, with and without use_sdf *)
InitSdf ==
    /\ charset \in UNION { [1..n -> SdfCharsetBytes] : n \in 0..MaxCharsetLen }
    /\ char_type = GLYPH_ENCODING_ASCII
    /\ pixel_height \in PixelHeights
    /\ use_sdf \in BOOLEAN
    /\ InitCreate

(***************************************************************************)
(* glyph_atlas_create, up to the end of the rasterization loop              *)
(***************************************************************************)

(* glyph_ttf_load_font_from_file fails: return atlas *)
LoadFontFail ==
    /\ pc = "load_font"
    /\ pc' = "failed"
    /\ UNCHANGED << inputs, fontVars, atlas, createLocals, sideVars, heap >>

(* the font loads: atlas.pixel_height = pixel_height *)
LoadFontOk ==
    /\ pc = "load_font"
    /\ atlas' = [atlas EXCEPT !.pixel_height = pixel_height]
    /\ heap' = Alloc(heap, FontRes)
    /\ pc' = "alloc_chars"
    /\ UNCHANGED << inputs, fontVars, createLocals, sideVars >>

(* charset_len is counted, atlas.num_chars set, and the character array
   cannot be allocated: free the font, return atlas *)
AllocCharsFail ==
    /\ pc = "alloc_chars"
    /\ charset_len' = CountCodepoints(charset, char_type)
    /\ atlas' = [atlas EXCEPT !.num_chars = CountCodepoints(charset, char_type),
                              !.chars = NULL]
    /\ heap' = Release(heap, FontRes)
    /\ pc' = "failed"
    /\ UNCHANGED << inputs, fontVars, temp_glyphs, charset_idx, ras_i, total_width,
                    max_height, glyph_order, packLocals, sideVars >>

AllocCharsOk ==
    /\ pc = "alloc_chars"
    /\ LET n == CountCodepoints(charset, char_type)
       IN  /\ charset_len' = n
           /\ atlas' = [atlas EXCEPT !.num_chars = n,
                                     !.chars = LIVE,
                                     !.entries = [k \in 1..n |-> FreshChar]]
    /\ heap' = Alloc(heap, CharsRes)
    /\ pc' = "alloc_temp"
    /\ UNCHANGED << inputs, fontVars, temp_glyphs, charset_idx, ras_i, total_width,
                    max_height, glyph_order, packLocals, sideVars >>

(* temp_glyphs cannot be allocated: free atlas.chars and the font, return
   atlas *)
AllocTempFail ==
    /\ pc = "alloc_temp"
    /\ atlas' = [atlas EXCEPT !.chars = NULL, !.entries = << >>]
    /\ heap' = Release(Release(heap, CharsRes), FontRes)
    /\ pc' = "failed"
    /\ UNCHANGED << inputs, fontVars, createLocals, sideVars >>

AllocTempOk ==
    /\ pc = "alloc_temp"
    /\ temp_glyphs' = << >>
    /\ heap' = Alloc(heap, TempGlyphsRes)
    /\ total_width' = 0
    /\ max_height' = 0
    /\ charset_idx' = 0
    /\ ras_i' = 0
    /\ pc' = "rasterize"
    /\ UNCHANGED << inputs, fontVars, atlas, charset_len, glyph_order, packLocals,
                    sideVars >>

(* the codepoint of loop index i and the charset index after decoding it *)
NextCodepoint ==
    IF char_type = GLYPH_ENCODING_UTF8
    THEN glyph_atlas_utf8_decode(charset, charset_idx)
    ELSE [cp |-> ByteAt(charset, ras_i), index |-> charset_idx]

(* glyph_ttf_find_glyph_index: the font's character map, NOTDEF when the
   codepoint is unmapped; the same codepoint always gets the same answer *)
GlyphIndexChoices(cp) ==
    IF cp \in DOMAIN font_cmap THEN {font_cmap[cp]} ELSE {NOTDEF, cp}

(* glyph_ttf_get_glyph_bitmap and glyph_ttf_get_glyph_advance * scale *)
GlyphChoices(gi) ==
    IF gi \in DOMAIN font_glyphs THEN {font_glyphs[gi]} ELSE ShapesAt(pixel_height)

(* the fallback advance (int)(pixel_height * 0.5f) *)
FallbackAdvance(ph) == ph \div 2

(* glyph_idx == 0 && codepoint != ' ': the fallback temp glyph; of the
   atlas entry only the codepoint is stored *)
RasterizeMissing ==
    /\ pc = "rasterize"
    /\ ras_i < charset_len
    /\ LET d == NextCodepoint
       IN  /\ \E gi \in GlyphIndexChoices(d.cp) :
                /\ gi = NOTDEF
                /\ d.cp # SPACE
                /\ font_cmap' = (d.cp :> gi) @@ font_cmap
           /\ temp_glyphs' = Append(temp_glyphs,
                  [bitmap |-> FALSE, width |-> 0, height |-> 0, xoff |-> 0,
                   yoff |-> 0, advance |-> FallbackAdvance(pixel_height)])
           /\ atlas' = [atlas EXCEPT !.entries[ras_i + 1].codepoint = d.cp]
           /\ charset_idx' = d.index
    /\ ras_i' = ras_i + 1
    /\ UNCHANGED << pc, inputs, font_glyphs, charset_len, total_width, max_height,
                    glyph_order, packLocals, sideVars, heap >>

(* what glyph_ttf_get_glyph_sdf_bitmap can answer for a glyph: an SDF
   bitmap, or NULL when it cannot allocate one; without use_sdf or without
   a coverage bitmap it is not called *)
SdfOutcomes(g) == IF use_sdf /\ g.bitmap THEN BOOLEAN ELSE {TRUE}

(* the temp glyph stored for a rasterized glyph: with use_sdf the bitmap is
   the SDF (sdf = FALSE is a NULL one), width and height stay *)
StoredGlyph(g, sdf) == IF use_sdf /\ g.bitmap THEN [g EXCEPT !.bitmap = sdf] ELSE g

(* an SDF conversion that keeps the coverage bitmap it replaced *)
HeapAfterRasterKeep(h, i, g, sdf) ==
    IF ~g.bitmap THEN h
    ELSE IF use_sdf
         THEN IF sdf THEN Alloc(Alloc(h, CoverageRes(i)), SdfRes(i))
              ELSE Alloc(h, CoverageRes(i))
         ELSE Alloc(h, CoverageRes(i))

(* the rasterizer hands out the coverage bitmap of glyph i; with use_sdf the
   generator hands out the SDF and the coverage bitmap is freed at once *)
HeapAfterRaster(h, i, g, sdf) ==
    IF ~g.bitmap THEN h
    ELSE IF use_sdf
         THEN IF sdf THEN Release(Alloc(Alloc(h, CoverageRes(i)), SdfRes(i)), CoverageRes(i))
              ELSE Release(Alloc(h, CoverageRes(i)), CoverageRes(i))
         ELSE Alloc(h, CoverageRes(i))

(* the block temp_glyphs[i].bitmap points to *)
BitmapRes(i) == IF use_sdf THEN SdfRes(i) ELSE CoverageRes(i)

(* the glyph is rasterized, converted to an SDF when asked for; codepoint
   and advance go to the atlas entry *)
RasterizeGlyph ==
    /\ pc = "rasterize"
    /\ ras_i < charset_len
    /\ LET d == NextCodepoint
       IN  /\ \E gi \in GlyphIndexChoices(d.cp) :
                /\ ~(gi = NOTDEF /\ d.cp # SPACE)
                /\ font_cmap' = (d.cp :> gi) @@ font_cmap
                /\ \E g \in GlyphChoices(gi) :
                     /\ font_glyphs' = (gi :> g) @@ font_glyphs
                     /\ \E sdf \in SdfOutcomes(g) :
                          /\ temp_glyphs' = Append(temp_glyphs, StoredGlyph(g, sdf))
                          /\ heap' = HeapAfterRaster(heap, ras_i, g, sdf)
                     /\ atlas' = [atlas EXCEPT
                                    !.entries[ras_i + 1].codepoint = d.cp,
                                    !.entries[ras_i + 1].advance = g.advance]
                     /\ total_width' = total_width + g.width + 4
                     /\ max_height' = IF g.height > max_height THEN g.height
                                      ELSE max_height
           /\ charset_idx' = d.index
    /\ ras_i' = ras_i + 1
    /\ UNCHANGED << pc, inputs, charset_len, glyph_order, packLocals, sideVars >>

(***************************************************************************)
(* Phase 2: the packing order                                               *)
(***************************************************************************)

(* an inner loop that also swaps glyphs of equal height *)
RECURSIVE BubblePassSwapEqual(_, _, _, _)
BubblePassSwapEqual(order, j, lim, tg) ==
    IF j >= lim THEN order
    ELSE LET a == order[j + 1]
             b == order[j + 2]
             swapped == [order EXCEPT ![j + 1] = b, ![j + 2] = a]
         IN  IF tg[a + 1].height <= tg[b + 1].height
             THEN BubblePassSwapEqual(swapped, j + 1, lim, tg)
             ELSE BubblePassSwapEqual(order, j + 1, lim, tg)

(* one inner loop of the bubble sort: j = 0 .. lim - 1, swapping
   glyph_order[j] and glyph_order[j + 1] when the first is strictly lower *)
RECURSIVE BubblePass(_, _, _, _)
BubblePass(order, j, lim, tg) ==
    IF j >= lim THEN order
    ELSE LET a == order[j + 1]
             b == order[j + 2]
             swapped == [order EXCEPT ![j + 1] = b, ![j + 2] = a]
         IN  IF tg[a + 1].height < tg[b + 1].height
             THEN BubblePass(swapped, j + 1, lim, tg)
             ELSE BubblePass(order, j + 1, lim, tg)

RECURSIVE BubbleSort(_, _, _, _)
BubbleSort(order, i, n, tg) ==
    IF i >= n - 1 THEN order
    ELSE BubbleSort(BubblePass(order, 0, n - i - 1, tg), i + 1, n, tg)

(* glyph_order[i] = i, then the bubble sort by height, tallest first *)
SortedOrder(n, tg) == BubbleSort([k \in 1..n |-> k - 1], 0, n, tg)

(* glyph_order cannot be allocated: free atlas.chars and temp_glyphs,
   return atlas *)
AllocOrderFail ==
    /\ pc = "rasterize"
    /\ ras_i = charset_len
    /\ atlas' = [atlas EXCEPT !.chars = NULL, !.entries = << >>]
    /\ temp_glyphs' = << >>
    /\ heap' = Release(Release(Release(heap, CharsRes), TempGlyphsRes), FontRes)
    /\ pc' = "failed"
    /\ UNCHANGED << inputs, fontVars, charset_len, charset_idx, ras_i, total_width,
                    max_height, glyph_order, packLocals, sideVars >>

AllocOrderOk ==
    /\ pc = "rasterize"
    /\ ras_i = charset_len
    /\ glyph_order' = SortedOrder(charset_len, temp_glyphs)
    /\ heap' = Alloc(heap, GlyphOrderRes)
    /\ pc' = "create_image"
    /\ UNCHANGED << inputs, fontVars, atlas, charset_len, temp_glyphs, charset_idx,
                    ras_i, total_width, max_height, packLocals, sideVars >>

(***************************************************************************)
(* Phase 3: the image and the packing loop                                  *)
(***************************************************************************)

(* an initial size that skips the rounding to a power of two *)
EstimateUnrounded(tw, mh) == int_sqrtf(tw * mh) + margin

(* next_pow2((int)sqrtf(total_width * max_height) + 256) *)
EstimateSize(tw, mh) == glyph_atlas__next_pow2(int_sqrtf(tw * mh) + margin)

AtLeast(v, min) == IF v < min THEN min ELSE v

(* the image is allocated and cleared; pen, row and loop start.  The
   current_row array is asked for and the answer is not tested: row_ok =
   FALSE is a NULL current_row *)
CreateImageOk ==
    /\ pc = "create_image"
    /\ LET w == AtLeast(EstimateSize(total_width, max_height), GLYPHGL_ATLAS_WIDTH)
           h == AtLeast(EstimateSize(total_width, max_height), GLYPHGL_ATLAS_HEIGHT)
       IN  /\ atlas_width' = w
           /\ atlas_height' = h
           /\ atlas' = [atlas EXCEPT !.image = glyph_image_create(w, h)]
    /\ \E row_ok \in BOOLEAN :
         heap' = IF row_ok THEN Alloc(Alloc(heap, ImageRes(0)), CurrentRowRes)
                 ELSE Alloc(heap, ImageRes(0))
    /\ pen_x' = padding
    /\ pen_y' = padding
    /\ row_height' = 0
    /\ current_row' = << >>
    /\ order_idx' = 0
    /\ pc' = "pack"
    /\ UNCHANGED << inputs, fontVars, charset_len, temp_glyphs, charset_idx, ras_i,
                    total_width, max_height, glyph_order, wild_write,
                    grows, sideVars >>

(* the image buffer cannot be allocated: memset writes through NULL *)
CreateImageFail ==
    /\ pc = "create_image"
    /\ atlas' = [atlas EXCEPT !.image = NoImage]
    /\ pc' = "crashed"
    /\ UNCHANGED << inputs, fontVars, createLocals, sideVars, heap >>

MaxOf(S) == CHOOSE m \in S : \A e \in S : e <= m

(* max_yoff of a row: starts at 0, raised by every larger yoff *)
RowMaxYoff(row, tg) == MaxOf({0} \cup {tg[row[r] + 1].yoff : r \in 1..Len(row)})

(* a row closure that leaves every glyph at the pen *)
GlyphTopZero(row, tg, idx) == 0

(* glyph_top = max_yoff - yoff *)
GlyphTop(row, tg, idx) == RowMaxYoff(row, tg) - tg[idx + 1].yoff

(* atlas.chars[idx].y += glyph_top for every glyph of the row *)
CloseRowEntries(entries, row, tg) ==
    [k \in 1..Len(entries) |->
        IF \E r \in 1..Len(row) : row[r] + 1 = k
        THEN [entries[k] EXCEPT !.y = @ + GlyphTop(row, tg, k - 1)]
        ELSE entries[k]]

(* the rectangles the row closure copies into the image, in row order *)
RowBlits(entries, row, tg) ==
    [r \in 1..Len(row) |->
        [index |-> row[r],
         x |-> entries[row[r] + 1].x,
         y |-> entries[row[r] + 1].y + GlyphTop(row, tg, row[r]),
         width |-> tg[row[r] + 1].width,
         height |-> tg[row[r] + 1].height]]

(* the blit stores at pixel_idx = (atlas_y * atlas_width + atlas_x) * 3 + c;
   it leaves the buffer of atlas_width * atlas_height * 3 bytes when its
   first or its last pixel does *)
BlitOutside(b, w, h) ==
    /\ b.width > 0
    /\ b.height > 0
    /\ \/ b.y * w + b.x < 0
       \/ (b.y + b.height - 1) * w + (b.x + b.width - 1) >= w * h

RowWritesOutside(entries, row, tg, w, h) ==
    \E r \in 1..Len(row) : BlitOutside(RowBlits(entries, row, tg)[r], w, h)

(* i = glyph_order[order_idx] and its temp glyph *)
PackIndex == glyph_order[order_idx + 1]
PackGlyph == temp_glyphs[PackIndex + 1]

(* !temp_glyphs[i].bitmap || temp_glyphs[i].width == 0 *)
IsEmptyGlyph(g) == (~g.bitmap) \/ g.width = 0

(* pen_x + width + padding > atlas_width: the current row is closed first *)
RowIsFull == pen_x + PackGlyph.width + padding > atlas_width

EntriesAfterClose ==
    IF RowIsFull THEN CloseRowEntries(atlas.entries, current_row, temp_glyphs)
    ELSE atlas.entries

BlitsAfterClose ==
    IF RowIsFull
    THEN atlas.image.blits \o RowBlits(atlas.entries, current_row, temp_glyphs)
    ELSE atlas.image.blits

ClosureWritesOutside ==
    RowIsFull /\ RowWritesOutside(atlas.entries, current_row, temp_glyphs,
                                  atlas_width, atlas_height)

PenXAfterClose == IF RowIsFull THEN padding ELSE pen_x
PenYAfterClose == IF RowIsFull THEN pen_y + row_height + padding ELSE pen_y
RowHeightAfterClose == IF RowIsFull THEN 0 ELSE row_height
RowAfterClose == IF RowIsFull THEN << >> ELSE current_row

(* pen_y + height + padding > atlas_height *)
FitsNotVertically(py, h, ah) == py + h + padding > ah

MustGrow == FitsNotVertically(PenYAfterClose, PackGlyph.height, atlas_height)

(* a growth step that leaves the dimension as it is *)
GrowNot(dim) == dim

(* atlas_width *= 2; atlas_height *= 2 *)
Grow(dim) == dim * 2

(* the pen is left where the abandoned attempt had it *)
PenKeptAtRestart == PenYAfterClose

(* pen_x = padding; pen_y = padding when the loop restarts *)
PenAtRestart == padding

(* a glyph without bitmap or of width 0: its entry gets zero geometry *)
PackEmpty ==
    /\ pc = "pack"
    /\ order_idx < charset_len
    /\ IsEmptyGlyph(PackGlyph)
    /\ atlas' = [atlas EXCEPT !.entries[PackIndex + 1] =
                    [@ EXCEPT !.x = 0, !.y = 0, !.width = 0, !.height = 0,
                              !.xoff = 0, !.yoff = 0]]
    /\ order_idx' = order_idx + 1
    /\ UNCHANGED << pc, inputs, fontVars, charset_len, temp_glyphs, charset_idx,
                    ras_i, total_width, max_height, glyph_order, atlas_width,
                    atlas_height, pen_x, pen_y, row_height, current_row,
                    wild_write, grows, sideVars, heap >>

(* the glyph fits (after closing the row when it was full): it joins the
   current row at the pen, and the pen advances *)
PackPlace ==
    /\ pc = "pack"
    /\ order_idx < charset_len
    /\ ~IsEmptyGlyph(PackGlyph)
    /\ ~MustGrow
    /\ Allocated(heap, CurrentRowRes)
    /\ LET i == PackIndex
           g == PackGlyph
       IN  /\ atlas' = [atlas EXCEPT
                          !.image.blits = BlitsAfterClose,
                          !.entries = [EntriesAfterClose EXCEPT ![i + 1] =
                              [@ EXCEPT !.x = PenXAfterClose,
                                        !.y = PenYAfterClose,
                                        !.width = g.width,
                                        !.height = g.height,
                                        !.xoff = g.xoff,
                                        !.yoff = g.yoff]]]
           /\ current_row' = Append(RowAfterClose, i)
           /\ row_height' = IF g.height > RowHeightAfterClose THEN g.height
                            ELSE RowHeightAfterClose
           /\ pen_x' = PenXAfterClose + g.width + padding * 2
           /\ pen_y' = PenYAfterClose
    /\ wild_write' = (wild_write \/ ClosureWritesOutside)
    /\ order_idx' = order_idx + 1
    /\ UNCHANGED << pc, inputs, fontVars, charset_len, temp_glyphs, charset_idx,
                    ras_i, total_width, max_height, glyph_order, atlas_width,
                    atlas_height, grows, sideVars, heap >>

(* the glyph does not fit vertically: both dimensions double, the image is
   replaced by a cleared one, pen and row are reset and the loop restarts *)
PackGrow ==
    /\ pc = "pack"
    /\ order_idx < charset_len
    /\ ~IsEmptyGlyph(PackGlyph)
    /\ MustGrow
    /\ atlas_width' = Grow(atlas_width)
    /\ atlas_height' = Grow(atlas_height)
    /\ atlas' = [atlas EXCEPT
                   !.image = glyph_image_create(Grow(atlas_width), Grow(atlas_height)),
                   !.entries = EntriesAfterClose]
    /\ pen_x' = PenAtRestart
    /\ pen_y' = PenAtRestart
    /\ row_height' = 0
    /\ current_row' = << >>
    /\ order_idx' = 0
    /\ grows' = grows + 1
    /\ heap' = Alloc(Release(heap, ImageRes(grows)), ImageRes(grows + 1))
    /\ wild_write' = (wild_write \/ ClosureWritesOutside)
    /\ UNCHANGED << pc, inputs, fontVars, charset_len, temp_glyphs, charset_idx,
                    ras_i, total_width, max_height, glyph_order, sideVars >>

(* the old image is freed and the doubled one cannot be allocated: memset
   writes through NULL *)
PackGrowFail ==
    /\ pc = "pack"
    /\ order_idx < charset_len
    /\ ~IsEmptyGlyph(PackGlyph)
    /\ MustGrow
    /\ atlas' = [atlas EXCEPT !.image = NoImage, !.entries = EntriesAfterClose]
    /\ heap' = Release(heap, ImageRes(grows))
    /\ wild_write' = (wild_write \/ ClosureWritesOutside)
    /\ pc' = "crashed"
    /\ UNCHANGED << inputs, fontVars, charset_len, temp_glyphs, charset_idx, ras_i,
                    total_width, max_height, glyph_order, atlas_width, atlas_height,
                    pen_x, pen_y, row_height, current_row, order_idx,
                    grows, sideVars >>

(* a row closure stored outside the image buffer and the process died of it;
   the other outcome, the store landing in mapped memory, is the one
   PackPlace and PackGrow continue with *)
PackWildCrash ==
    /\ pc = "pack"
    /\ order_idx < charset_len
    /\ ~IsEmptyGlyph(PackGlyph)
    /\ ClosureWritesOutside
    /\ wild_write' = TRUE
    /\ pc' = "crashed"
    /\ UNCHANGED << inputs, fontVars, atlas, charset_len, temp_glyphs, charset_idx,
                    ras_i, total_width, max_height, glyph_order, atlas_width,
                    atlas_height, pen_x, pen_y, row_height, current_row, order_idx,
                    grows, sideVars, heap >>

(* the glyph fits, current_row is NULL and current_row[row_count].index = i
   stores through it *)
PackRowNullCrash ==
    /\ pc = "pack"
    /\ order_idx < charset_len
    /\ ~IsEmptyGlyph(PackGlyph)
    /\ ~MustGrow
    /\ ~Allocated(heap, CurrentRowRes)
    /\ pc' = "crashed"
    /\ UNCHANGED << inputs, fontVars, atlas, charset_len, temp_glyphs, charset_idx,
                    ras_i, total_width, max_height, glyph_order, atlas_width,
                    atlas_height, pen_x, pen_y, row_height, current_row, order_idx,
                    wild_write, grows, sideVars, heap >>

(* for (i = 0; i < charset_len; i++) if (temp_glyphs[i].bitmap) free it,
   by GLYPH_FREE or glyph_ttf_free_bitmap; k glyphs are still to visit *)
RECURSIVE ReleaseBitmaps(_, _, _)
ReleaseBitmaps(h, tg, k) ==
    IF k = 0 THEN h
    ELSE LET i == Len(tg) - k
         IN  ReleaseBitmaps(ReleaseIf(h, BitmapRes(i), tg[i + 1].bitmap), tg, k - 1)

(* GLYPH_FREE(current_row); GLYPH_FREE(glyph_order); the bitmaps;
   GLYPH_FREE(temp_glyphs); glyph_ttf_free_font *)
HeapAfterCleanup(h, tg) ==
    LET h1 == ReleaseIf(h, CurrentRowRes, Allocated(h, CurrentRowRes))
        h2 == Release(h1, GlyphOrderRes)
        h3 == ReleaseBitmaps(h2, tg, Len(tg))
        h4 == Release(h3, TempGlyphsRes)
    IN  Release(h4, FontRes)

(* the caller reads what GLYPH_MALLOC left in a field that was never
   assigned *)
ReadEntry(e, garbage) ==
    [f \in DOMAIN e |-> IF e[f] = UNINIT THEN garbage ELSE e[f]]

LastRowWritesOutside ==
    RowWritesOutside(atlas.entries, current_row, temp_glyphs,
                     atlas_width, atlas_height)

(* the loop is over: the last row is closed when it holds glyphs, the
   temporaries and the font are released and the atlas is returned *)
FinishAndReturn ==
    /\ pc = "pack"
    /\ order_idx = charset_len
    /\ \E garbage \in [1..charset_len -> GarbageValues] :
         LET row == current_row
             closed == CloseRowEntries(atlas.entries, row, temp_glyphs)
         IN  atlas' = [atlas EXCEPT
                         !.image.blits = @ \o RowBlits(atlas.entries, row, temp_glyphs),
                         !.entries = [k \in 1..charset_len |->
                                         ReadEntry(closed[k], garbage[k])]]
    /\ wild_write' = (wild_write \/ LastRowWritesOutside)
    /\ heap' = HeapAfterCleanup(heap, temp_glyphs)
    /\ pc' = "returned"
    /\ UNCHANGED << inputs, fontVars, charset_len, temp_glyphs, charset_idx, ras_i,
                    total_width, max_height, glyph_order, atlas_width, atlas_height,
                    pen_x, pen_y, row_height, current_row, order_idx,
                    grows, sideVars >>

(* closing the last row stored outside the image buffer and the process
   died of it *)
FinishWildCrash ==
    /\ pc = "pack"
    /\ order_idx = charset_len
    /\ LastRowWritesOutside
    /\ wild_write' = TRUE
    /\ pc' = "crashed"
    /\ UNCHANGED << inputs, fontVars, atlas, charset_len, temp_glyphs, charset_idx,
                    ras_i, total_width, max_height, glyph_order, atlas_width,
                    atlas_height, pen_x, pen_y, row_height, current_row, order_idx,
                    grows, sideVars, heap >>

(***************************************************************************)
(* One packing pass over glyph_order in an image of fixed dimensions        *)
(***************************************************************************)

(* the packing state before the first glyph: pen at the padding, empty row,
   cleared image, no geometry assigned yet *)
SinglePassStart(n) ==
    [k |-> 0, pen_x |-> padding, pen_y |-> padding, row_height |-> 0,
     row |-> << >>, blits |-> << >>, fits |-> TRUE,
     entries |-> [e \in 1..n |-> [x |-> UNINIT, y |-> UNINIT, width |-> UNINIT,
                                  height |-> UNINIT, xoff |-> UNINIT,
                                  yoff |-> UNINIT]]]

(* one iteration of the packing loop for glyph_order[st.k] in an image
   w wide and h high; fits records that no iteration asked for a larger
   image *)
SinglePassStep(st, order, tg, w, h) ==
    LET i == order[st.k + 1]
        g == tg[i + 1]
        full == st.pen_x + g.width + padding > w
        px == IF full THEN padding ELSE st.pen_x
        py == IF full THEN st.pen_y + st.row_height + padding ELSE st.pen_y
        rh == IF full THEN 0 ELSE st.row_height
        row == IF full THEN << >> ELSE st.row
        ents == IF full THEN CloseRowEntries(st.entries, st.row, tg) ELSE st.entries
        blits == IF full THEN st.blits \o RowBlits(st.entries, st.row, tg) ELSE st.blits
    IN  IF IsEmptyGlyph(g)
        THEN [st EXCEPT !.k = @ + 1,
                        !.entries[i + 1] = [x |-> 0, y |-> 0, width |-> 0,
                                            height |-> 0, xoff |-> 0, yoff |-> 0]]
        ELSE [k |-> st.k + 1,
              pen_x |-> px + g.width + padding * 2,
              pen_y |-> py,
              row_height |-> IF g.height > rh THEN g.height ELSE rh,
              row |-> Append(row, i),
              blits |-> blits,
              fits |-> st.fits /\ ~FitsNotVertically(py, g.height, h),
              entries |-> [ents EXCEPT ![i + 1] =
                              [x |-> px, y |-> py, width |-> g.width,
                               height |-> g.height, xoff |-> g.xoff,
                               yoff |-> g.yoff]]]

(* the whole loop and the closure of the last row *)
RECURSIVE SinglePass(_, _, _, _, _)
SinglePass(st, order, tg, w, h) ==
    IF st.k = Len(order)
    THEN [st EXCEPT !.entries = CloseRowEntries(st.entries, st.row, tg),
                    !.blits = @ \o RowBlits(st.entries, st.row, tg)]
    ELSE SinglePass(SinglePassStep(st, order, tg, w, h), order, tg, w, h)

(***************************************************************************)
(* The caller's side                                                        *)
(***************************************************************************)

(* glyph_image_free: the buffer is released *)
glyph_image_free(image) == [image EXCEPT !.data = NULL, !.blits = << >>]

(* the atlas glyph_atlas_free leaves behind *)
AtlasAfterFree(a) ==
    [a EXCEPT !.chars = NULL,
              !.entries = << >>,
              !.image = glyph_image_free(a.image),
              !.num_chars = 0]

(* the blocks glyph_atlas_free releases *)
HeapAfterAtlasFree(h, a) ==
    ReleaseIf(ReleaseIf(h, CharsRes, a.chars # NULL),
              ImageRes(grows), a.image.data # NULL)

(* glyph_atlas_free on the atlas a call returned *)
AtlasFree ==
    /\ pc \in {"returned", "failed", "freed"}
    /\ atlas' = AtlasAfterFree(atlas)
    /\ heap' = HeapAfterAtlasFree(heap, atlas)
    /\ pc' = "freed"
    /\ UNCHANGED << inputs, fontVars, createLocals, sideVars >>

(* a lookup that compares the index instead of the codepoint *)
RECURSIVE FindFromByIndex(_, _, _)
FindFromByIndex(a, cp, i) ==
    IF i >= a.num_chars THEN NULL
    ELSE IF i = cp THEN i + 1
    ELSE FindFromByIndex(a, cp, i + 1)

(* the linear search of glyph_atlas_find_char from index i on: the position
   (C index + 1) of the first entry with the codepoint, NULL when none *)
RECURSIVE FindFrom(_, _, _)
FindFrom(a, cp, i) ==
    IF i >= a.num_chars THEN NULL
    ELSE IF a.entries[i + 1].codepoint = cp THEN i + 1
    ELSE FindFrom(a, cp, i + 1)

(* glyph_atlas_find_char(atlas, codepoint); hasAtlas = FALSE is a NULL atlas
   pointer *)
glyph_atlas_find_char(hasAtlas, a, cp) ==
    IF (~hasAtlas) \/ a.chars = NULL THEN NULL ELSE FindFrom(a, cp, 0)

Next ==
    \/ LoadFontFail
    \/ LoadFontOk
    \/ AllocCharsFail
    \/ AllocCharsOk
    \/ AllocTempFail
    \/ AllocTempOk
    \/ RasterizeMissing
    \/ RasterizeGlyph
    \/ AllocOrderFail
    \/ AllocOrderOk
    \/ CreateImageOk
    \/ CreateImageFail
    \/ PackEmpty
    \/ PackPlace
    \/ PackGrow
    \/ PackGrowFail
    \/ PackWildCrash
    \/ PackRowNullCrash
    \/ FinishAndReturn
    \/ FinishWildCrash
    \/ AtlasFree

Spec == Init /\ [][Next]_vars

SpecSdf == InitSdf /\ [][Next]_vars

SpecGrow == InitGrow /\ [][Next]_vars

(* the states glyph_atlas_create has returned in *)
Returned == pc = "returned"
Failed == pc = "failed"

(***************************************************************************)
(* glyph_atlas__next_pow2 on its own: a call with an argument of            *)
(* [1, 2^30], then its result                                               *)
(***************************************************************************)
Pow2Inputs ==
    (1..MaxSmallV)
    \cup {Pow2(k) - 1 : k \in 7..30}
    \cup {Pow2(k) : k \in 7..30}
    \cup {Pow2(k) + 1 : k \in 7..29}

InitPow2 ==
    /\ pc = "pow2_call"
    /\ v_in \in Pow2Inputs
    /\ v_out = 0
    /\ charset = << >>
    /\ char_type = GLYPH_ENCODING_ASCII
    /\ pixel_height = 32
    /\ use_sdf = FALSE
    /\ font_cmap = << >>
    /\ font_glyphs = << >>
    /\ atlas = ZeroAtlas
    /\ charset_len = 0
    /\ temp_glyphs = << >>
    /\ charset_idx = 0
    /\ ras_i = 0
    /\ total_width = 0
    /\ max_height = 0
    /\ glyph_order = << >>
    /\ atlas_width = 0
    /\ atlas_height = 0
    /\ pen_x = 0
    /\ pen_y = 0
    /\ row_height = 0
    /\ current_row = << >>
    /\ order_idx = 0
    /\ grows = 0
    /\ wild_write = FALSE
    /\ heap = << >>
    /\ DecodeIdle
    /\ TextIdle
    /\ RendererIdle

Pow2Call ==
    /\ pc = "pow2_call"
    /\ v_out' = glyph_atlas__next_pow2(v_in)
    /\ pc' = "pow2_done"
    /\ UNCHANGED << v_in, inputs, fontVars, atlas, createLocals, heap, decodeVars,
                    textVars, rendererVars >>

NextPow2 == Pow2Call

SpecPow2 == InitPow2 /\ [][NextPow2]_vars

(***************************************************************************)
(* The two decoding passes of glyph_atlas_create over a well-formed UTF-8   *)
(* charset: the counting loop, then the decoding of the rasterization loop  *)
(***************************************************************************)
MaxCodepoint == 1114111

(* codepoints at the ends of the four encoded lengths *)
CharsetCodepointChoices == {36, 127, 128, 2047, 2048, 65535, 65536, MaxCodepoint}

(* the bytes of one codepoint in UTF-8 *)
Utf8Encode(cp) ==
    IF cp < 128 THEN << cp >>
    ELSE IF cp < 2048 THEN << 192 + Shr(cp, 6), 128 + BitAnd(cp, 63) >>
    ELSE IF cp < 65536 THEN
        << 224 + Shr(cp, 12), 128 + BitAnd(Shr(cp, 6), 63), 128 + BitAnd(cp, 63) >>
    ELSE << 240 + Shr(cp, 18), 128 + BitAnd(Shr(cp, 12), 63),
            128 + BitAnd(Shr(cp, 6), 63), 128 + BitAnd(cp, 63) >>

RECURSIVE Utf8EncodeAll(_)
Utf8EncodeAll(list) ==
    IF list = << >> THEN << >>
    ELSE Utf8Encode(Head(list)) \o Utf8EncodeAll(Tail(list))

InitCharset ==
    /\ pc = "utf8_count"
    /\ cps \in UNION { [1..n -> CharsetCodepointChoices] : n \in 0..MaxCharsetLen }
    /\ charset = Utf8EncodeAll(cps)
    /\ char_type = GLYPH_ENCODING_UTF8
    /\ pixel_height = 32
    /\ use_sdf = FALSE
    /\ decoded = << >>
    /\ font_cmap = << >>
    /\ font_glyphs = << >>
    /\ atlas = ZeroAtlas
    /\ charset_len = 0
    /\ temp_glyphs = << >>
    /\ charset_idx = 0
    /\ ras_i = 0
    /\ total_width = 0
    /\ max_height = 0
    /\ glyph_order = << >>
    /\ atlas_width = 0
    /\ atlas_height = 0
    /\ pen_x = 0
    /\ pen_y = 0
    /\ row_height = 0
    /\ current_row = << >>
    /\ order_idx = 0
    /\ grows = 0
    /\ wild_write = FALSE
    /\ heap = << >>
    /\ v_in = 0
    /\ v_out = 0
    /\ TextIdle
    /\ RendererIdle

(* the counting loop runs to its end *)
CharsetCount ==
    /\ pc = "utf8_count"
    /\ charset_len' = CountCodepoints(charset, char_type)
    /\ charset_idx' = 0
    /\ ras_i' = 0
    /\ pc' = "utf8_decode"
    /\ UNCHANGED << decoded, cps, pow2Vars, inputs, fontVars, atlas, temp_glyphs,
                    total_width, max_height, glyph_order, packLocals, heap, textVars, rendererVars >>

(* one round of for (i = 0; i < charset_len; i++): the codepoint is decoded *)
CharsetDecodeStep ==
    /\ pc = "utf8_decode"
    /\ ras_i < charset_len
    /\ decoded' = Append(decoded, NextCodepoint.cp)
    /\ charset_idx' = NextCodepoint.index
    /\ ras_i' = ras_i + 1
    /\ UNCHANGED << pc, charset_len, cps, pow2Vars, inputs, fontVars, atlas,
                    temp_glyphs, total_width, max_height, glyph_order, packLocals,
                    heap, textVars, rendererVars >>

(* i = charset_len: the loop is left *)
CharsetDecodeDone ==
    /\ pc = "utf8_decode"
    /\ ras_i = charset_len
    /\ pc' = "utf8_decoded"
    /\ UNCHANGED << charset_len, charset_idx, ras_i, decoded, cps, pow2Vars, inputs,
                    fontVars, atlas, temp_glyphs, total_width, max_height,
                    glyph_order, packLocals, heap, textVars, rendererVars >>

NextCharset == CharsetCount \/ CharsetDecodeStep \/ CharsetDecodeDone

SpecCharset == InitCharset /\ [][NextCharset]_vars

(***************************************************************************)
(* The counting loop of glyph_atlas_create over any bytes, call by call      *)
(***************************************************************************)

(* the bytes of the charsets counted: 'A', a continuation byte and the leads
   of a 2-, a 3- and a 4-byte sequence *)
RawCharsetBytes == {65, 169, 195, 225, 240}

(* the index of the last byte a glyph_atlas_utf8_decode call at index reads:
   the lead and, unchecked, one, two or three bytes after it *)
LastRead(str, index) ==
    LET c == ByteAt(str, index)
    IN  IF c < 128 THEN index
        ELSE IF BitAnd(c, 224) = 192 THEN index + 1
        ELSE IF BitAnd(c, 240) = 224 THEN index + 2
        ELSE IF BitAnd(c, 248) = 240 THEN index + 3
        ELSE index

InitCount ==
    /\ pc = "count_loop"
    /\ charset \in UNION { [1..n -> RawCharsetBytes] : n \in 0..MaxCharsetLen }
    /\ char_type = GLYPH_ENCODING_UTF8
    /\ pixel_height = 32
    /\ use_sdf = FALSE
    /\ font_cmap = << >>
    /\ font_glyphs = << >>
    /\ atlas = ZeroAtlas
    /\ charset_len = 0
    /\ temp_glyphs = << >>
    /\ charset_idx = 0
    /\ ras_i = 0
    /\ total_width = 0
    /\ max_height = 0
    /\ glyph_order = << >>
    /\ atlas_width = 0
    /\ atlas_height = 0
    /\ pen_x = 0
    /\ pen_y = 0
    /\ row_height = 0
    /\ current_row = << >>
    /\ order_idx = 0
    /\ grows = 0
    /\ wild_write = FALSE
    /\ heap = << >>
    /\ v_in = 0
    /\ v_out = 0
    /\ DecodeIdle
    /\ TextIdle
    /\ RendererIdle

(* what the counting loop leaves alone *)
countFrame ==
    << inputs, fontVars, atlas, temp_glyphs, ras_i, total_width, max_height,
       glyph_order, packLocals, heap, sideVars >>

(* one round of while (idx < strlen(charset)) whose call reads no byte after
   the terminator *)
CountDecode ==
    /\ pc = "count_loop"
    /\ charset_idx < strlen(charset)
    /\ LastRead(charset, charset_idx) <= strlen(charset)
    /\ charset_idx' = glyph_atlas_utf8_decode(charset, charset_idx).index
    /\ charset_len' = charset_len + 1
    /\ UNCHANGED << pc, countFrame >>

(* the call reads after the terminator and the process dies of it *)
CountWildReadCrash ==
    /\ pc = "count_loop"
    /\ charset_idx < strlen(charset)
    /\ LastRead(charset, charset_idx) > strlen(charset)
    /\ pc' = "crashed"
    /\ UNCHANGED << charset_idx, charset_len, countFrame >>

(* the call reads after the terminator whatever lies there; the index it
   stores does not depend on the bytes read *)
CountWildReadContinue ==
    /\ pc = "count_loop"
    /\ charset_idx < strlen(charset)
    /\ LastRead(charset, charset_idx) > strlen(charset)
    /\ charset_idx' = glyph_atlas_utf8_decode(charset, charset_idx).index
    /\ charset_len' = charset_len + 1
    /\ UNCHANGED << pc, countFrame >>

(* idx >= strlen(charset): the loop is left *)
CountDone ==
    /\ pc = "count_loop"
    /\ charset_idx >= strlen(charset)
    /\ pc' = "counted"
    /\ UNCHANGED << charset_idx, charset_len, countFrame >>

NextCount == CountDecode \/ CountWildReadCrash \/ CountWildReadContinue \/ CountDone

SpecCount == InitCount /\ [][NextCount]_vars

(***************************************************************************)
(* glyph_utf8_decode of glyph.h on its own: one call on a byte string       *)
(***************************************************************************)
MaxTextLen == 4

(* 'A', two continuation bytes, the leads of a 2-, 3- and 4-byte sequence
   and a byte that is neither *)
TextBytes == {65, 128, 169, 195, 226, 240, 255}

(* glyph_utf8_decode(str, &index): the value returned and the index
   afterwards *)
glyph_utf8_decode(str, index) ==
    LET c == ByteAt(str, index)
        c2 == ByteAt(str, index + 1)
        c3 == ByteAt(str, index + 2)
        c4 == ByteAt(str, index + 3)
        cont(b) == BitAnd(b, 192) = 128
    IN  IF index >= strlen(str) THEN [cp |-> 0, index |-> index]
        ELSE IF c < 128 THEN [cp |-> c, index |-> index + 1]
        ELSE IF BitAnd(c, 224) = 192 THEN
            IF index + 1 >= strlen(str) THEN [cp |-> REPLACEMENT, index |-> index]
            ELSE IF ~cont(c2) THEN [cp |-> REPLACEMENT, index |-> index]
            ELSE [cp |-> BitOr(Shl(BitAnd(c, 31), 6), BitAnd(c2, 63)),
                  index |-> index + 2]
        ELSE IF BitAnd(c, 240) = 224 THEN
            IF index + 2 >= strlen(str) THEN [cp |-> REPLACEMENT, index |-> index]
            ELSE IF ~cont(c2) \/ ~cont(c3) THEN [cp |-> REPLACEMENT, index |-> index]
            ELSE [cp |-> BitOr(BitOr(Shl(BitAnd(c, 15), 12), Shl(BitAnd(c2, 63), 6)),
                               BitAnd(c3, 63)),
                  index |-> index + 3]
        ELSE IF BitAnd(c, 248) = 240 THEN
            IF index + 3 >= strlen(str) THEN [cp |-> REPLACEMENT, index |-> index]
            ELSE IF ~cont(c2) \/ ~cont(c3) \/ ~cont(c4)
                 THEN [cp |-> REPLACEMENT, index |-> index]
            ELSE [cp |-> BitOr(BitOr(BitOr(Shl(BitAnd(c, 7), 18),
                                           Shl(BitAnd(c2, 63), 12)),
                                     Shl(BitAnd(c3, 63), 6)),
                               BitAnd(c4, 63)),
                  index |-> index + 4]
        ELSE [cp |-> REPLACEMENT, index |-> index + 1]

InitText ==
    /\ pc = "text_call"
    /\ text \in UNION { [1..n -> TextBytes] : n \in 0..MaxTextLen }
    /\ idx_in \in 0..MaxTextLen
    /\ idx_in <= Len(text)
    /\ idx_out = idx_in
    /\ cp_out = 0
    /\ draw = NoDraw
    /\ charset = << >>
    /\ char_type = GLYPH_ENCODING_UTF8
    /\ pixel_height = 32
    /\ use_sdf = FALSE
    /\ font_cmap = << >>
    /\ font_glyphs = << >>
    /\ atlas = ZeroAtlas
    /\ charset_len = 0
    /\ temp_glyphs = << >>
    /\ charset_idx = 0
    /\ ras_i = 0
    /\ total_width = 0
    /\ max_height = 0
    /\ glyph_order = << >>
    /\ atlas_width = 0
    /\ atlas_height = 0
    /\ pen_x = 0
    /\ pen_y = 0
    /\ row_height = 0
    /\ current_row = << >>
    /\ order_idx = 0
    /\ grows = 0
    /\ wild_write = FALSE
    /\ heap = << >>
    /\ v_in = 0
    /\ v_out = 0
    /\ DecodeIdle
    /\ RendererIdle

(* codepoint = glyph_utf8_decode(text, &i) *)
TextDecodeCall ==
    /\ pc = "text_call"
    /\ cp_out' = glyph_utf8_decode(text, idx_in).cp
    /\ idx_out' = glyph_utf8_decode(text, idx_in).index
    /\ pc' = "text_done"
    /\ UNCHANGED << text, idx_in, draw, inputs, fontVars, atlas, createLocals,
                    heap, pow2Vars, decodeVars, rendererVars >>

NextText == TextDecodeCall

SpecText == InitText /\ [][NextText]_vars

(***************************************************************************)
(* glyph_renderer_create and the calls made on the renderer it returns      *)
(***************************************************************************)

MaxCalls == 3

GLYPH_EFFECT_NONE == 0
GLYPH_EFFECT_GLOW == 1
GLYPHGL_VERTEX_BUFFER_SIZE == 73728

(* the GL objects and the blocks of a renderer *)
RedChannelRes == << "red_channel", 0 >>
TextureRes == << "texture", 0 >>
ProgramRes == << "program", 0 >>
VaoRes == << "vao", 0 >>
VboRes == << "vbo", 0 >>
VertexBufferRes(k) == << "vertex_buffer", k >>

(* r is obtained and not released: it may be used *)
Usable(h, r) == Allocated(h, r) /\ h[r] = 0

(* glyph_effect_create_custom(vertex_shader, fragment_shader) *)
glyph_effect_create_custom(vertex_shader, fragment_shader) ==
    [type |-> GLYPH_EFFECT_NONE, vertex_shader |-> vertex_shader,
     fragment_shader |-> fragment_shader]

(* glyph_effect_create_glow() *)
glyph_effect_create_glow ==
    [type |-> GLYPH_EFFECT_GLOW, vertex_shader |-> "glow_vs",
     fragment_shader |-> "glow_fs"]

(* the effect glyph_renderer_create uses for a NULL effect argument *)
default_effect ==
    [type |-> GLYPH_EFFECT_NONE, vertex_shader |-> "", fragment_shader |-> ""]

(* the effect arguments of the callers: none, custom shaders, a built-in *)
EffectArgs == {"NULL", "custom", "glow"}

(* the glyph_effect_t behind an effect argument *)
EffectValue(arg) ==
    CASE arg = "NULL" -> default_effect
      [] arg = "custom" -> glyph_effect_create_custom("user_vs", "user_fs")
      [] arg = "glow" -> glyph_effect_create_glow

(* the sources glyph_renderer_create hands to glyph__create_program *)
ProgramSources(r) ==
    IF r.effect.type = GLYPH_EFFECT_NONE
    THEN << "default_vs", "default_fs" >>
    ELSE << r.effect.vertex_shader, r.effect.fragment_shader >>

(* the red channel is copied, uploaded as a texture and released *)
HeapWithTexture(h) ==
    Alloc(Release(Alloc(h, RedChannelRes), RedChannelRes), TextureRes)

(* texture, program, vertex array and vertex buffer object exist *)
HeapWithGLObjects(h) ==
    Alloc(Alloc(Alloc(HeapWithTexture(h), ProgramRes), VaoRes), VboRes)

(* glDeleteVertexArrays, glDeleteBuffers, glDeleteTextures, glDeleteProgram *)
HeapAfterGLDelete(h) ==
    Release(Release(Release(Release(h, VaoRes), VboRes), TextureRes), ProgramRes)

(* glyph_renderer_create for a one-letter charset repeated up to
   MaxCharsetLen times, with each effect argument *)
InitRenderer ==
    /\ pc = "r_create"
    /\ charset \in UNION { [1..n -> {65}] : n \in 0..MaxCharsetLen }
    /\ char_type = GLYPH_ENCODING_ASCII
    /\ pixel_height \in PixelHeights
    /\ use_sdf = FALSE
    /\ InitAtlasVars
    /\ v_in = 0
    /\ v_out = 0
    /\ DecodeIdle
    /\ TextIdle
    /\ renderer = ZeroRenderer
    /\ effect_arg \in EffectArgs
    /\ gl = NoGL
    /\ calls = 0

(* what no step of glyph_renderer_create outside glyph_atlas_create changes *)
atlasCallVars == << inputs, fontVars, createLocals, pow2Vars, decodeVars, textVars >>

(* glyph_gl_load_functions fails: the zeroed renderer is returned *)
RendererLoadGLFail ==
    /\ pc = "r_create"
    /\ pc' = "r_done"
    /\ UNCHANGED << atlasCallVars, atlas, heap, rendererVars >>

(* the GL functions load; char_type and the effect are stored and
   glyph_atlas_create is entered *)
RendererLoadGLOk ==
    /\ pc = "r_create"
    /\ renderer' = [renderer EXCEPT !.char_type = char_type,
                                    !.effect = EffectValue(effect_arg)]
    /\ pc' = "load_font"
    /\ UNCHANGED << atlasCallVars, atlas, heap, effect_arg, gl, calls >>

(* glyph_atlas_create returned an atlas without chars or without pixels *)
RendererAtlasFail ==
    /\ pc \in {"returned", "failed"}
    /\ atlas.chars = NULL \/ atlas.image.data = NULL
    /\ pc' = "r_done"
    /\ UNCHANGED << atlasCallVars, atlas, heap, rendererVars >>

(* glyph_atlas_create returned a usable atlas *)
AtlasCreated ==
    pc = "returned" /\ atlas.chars # NULL /\ atlas.image.data # NULL

(* the red channel buffer cannot be obtained *)
RendererRedChannelFail ==
    /\ AtlasCreated
    /\ atlas' = AtlasAfterFree(atlas)
    /\ heap' = HeapAfterAtlasFree(heap, atlas)
    /\ pc' = "r_done"
    /\ UNCHANGED << atlasCallVars, rendererVars >>

(* glyph__create_program returns 0 *)
RendererShaderFail ==
    /\ AtlasCreated
    /\ renderer' = [renderer EXCEPT !.texture = LIVE]
    /\ gl' = [gl EXCEPT !.program_src = ProgramSources(renderer)]
    /\ atlas' = AtlasAfterFree(atlas)
    /\ heap' = HeapAfterAtlasFree(Release(HeapWithTexture(heap), TextureRes), atlas)
    /\ pc' = "r_done"
    /\ UNCHANGED << atlasCallVars, effect_arg, calls >>

(* the CPU vertex buffer cannot be obtained *)
RendererVertexBufferFail ==
    /\ AtlasCreated
    /\ renderer' = [renderer EXCEPT
                        !.texture = LIVE, !.shader = LIVE,
                        !.vao = LIVE, !.vbo = LIVE,
                        !.vertex_buffer_size = GLYPHGL_VERTEX_BUFFER_SIZE * 4,
                        !.vertex_buffer = NULL]
    /\ gl' = [gl EXCEPT !.program_src = ProgramSources(renderer)]
    /\ atlas' = AtlasAfterFree(atlas)
    /\ heap' = HeapAfterAtlasFree(HeapAfterGLDelete(HeapWithGLObjects(heap)), atlas)
    /\ pc' = "r_done"
    /\ UNCHANGED << atlasCallVars, effect_arg, calls >>

(* every step succeeds *)
RendererCreateOk ==
    /\ AtlasCreated
    /\ renderer' = [renderer EXCEPT
                        !.texture = LIVE, !.shader = LIVE,
                        !.vao = LIVE, !.vbo = LIVE,
                        !.vertex_buffer_size = GLYPHGL_VERTEX_BUFFER_SIZE * 4,
                        !.vertex_buffer = 1,
                        !.initialized = 1]
    /\ gl' = [gl EXCEPT !.program_src = ProgramSources(renderer)]
    /\ heap' = Alloc(HeapWithGLObjects(heap), VertexBufferRes(1))
    /\ pc' = "r_done"
    /\ UNCHANGED << atlasCallVars, atlas, effect_arg, calls >>

(* the guard every call on a renderer starts with; isNull is a NULL renderer
   pointer *)
RendererRejected(isNull) == isNull \/ renderer.initialized = 0

(* a call on the renderer is recorded *)
GLAfterCall(op, isNull, ok) ==
    [gl EXCEPT !.last = [op |-> op, null |-> isNull],
               !.misuse = @ \/ ~ok]

(* the renderer stays marked initialized after glyph_renderer_free *)
RendererStaysInitialized(r) == r

(* renderer->initialized = 0 at the end of glyph_renderer_free *)
RendererAfterFree(r) == [r EXCEPT !.initialized = 0]

(* glyph_renderer_free(renderer) *)
RendererFree ==
    /\ pc = "r_done"
    /\ calls < MaxCalls
    /\ \E isNull \in BOOLEAN :
        IF RendererRejected(isNull)
        THEN /\ gl' = GLAfterCall("free", isNull, TRUE)
             /\ UNCHANGED << atlas, heap, renderer >>
        ELSE /\ heap' = Release(HeapAfterAtlasFree(HeapAfterGLDelete(heap), atlas),
                                VertexBufferRes(renderer.vertex_buffer))
             /\ atlas' = AtlasAfterFree(atlas)
             /\ renderer' = RendererAfterFree(renderer)
             /\ gl' = GLAfterCall("free", isNull, TRUE)
    /\ calls' = calls + 1
    /\ UNCHANGED << pc, atlasCallVars, effect_arg >>

(* the call returns at its guard, or binds a program that exists *)
ProjectionOk(isNull) == RendererRejected(isNull) \/ Usable(heap, ProgramRes)

(* glyph_renderer_set_projection(renderer, width, height) *)
RendererSetProjection ==
    /\ pc = "r_done"
    /\ calls < MaxCalls
    /\ \E isNull \in BOOLEAN :
        gl' = GLAfterCall("set_projection", isNull, ProjectionOk(isNull))
    /\ calls' = calls + 1
    /\ UNCHANGED << pc, atlasCallVars, atlas, heap, renderer, effect_arg >>

(* glyph_renderer_update_projection(renderer, width, height) *)
RendererUpdateProjection ==
    /\ pc = "r_done"
    /\ calls < MaxCalls
    /\ \E isNull \in BOOLEAN :
        gl' = GLAfterCall("update_projection", isNull, ProjectionOk(isNull))
    /\ calls' = calls + 1
    /\ UNCHANGED << pc, atlasCallVars, atlas, heap, renderer, effect_arg >>

(* the lengths of the texts drawn: empty, short, longer than the buffer *)
DrawTextLens == {0, 2, 1100}

(* sizeof(float) * 24 * text_len * 3 *)
RequiredSize(text_len) == 4 * 24 * text_len * 3

(* the objects and blocks a draw call reads or writes *)
DrawUses(text_len) ==
    {ProgramRes, VaoRes, TextureRes, VboRes, VertexBufferRes(renderer.vertex_buffer)}
        \cup (IF text_len > 0 THEN {CharsRes} ELSE {})

(* glyph_renderer_draw_text(renderer, text, ...) for a text of text_len
   letters of the charset *)
RendererDrawText ==
    /\ pc = "r_done"
    /\ calls < MaxCalls
    /\ \E isNull \in BOOLEAN, text_len \in DrawTextLens, realloc_ok \in BOOLEAN :
        LET uses_ok == \A r \in DrawUses(text_len) : Usable(heap, r)
            required_size == RequiredSize(text_len)
        IN  IF RendererRejected(isNull)
            THEN /\ gl' = GLAfterCall("draw_text", isNull, TRUE)
                 /\ UNCHANGED << heap, renderer >>
            ELSE IF required_size > renderer.vertex_buffer_size
            THEN IF realloc_ok
                 THEN /\ heap' = Alloc(Release(heap, VertexBufferRes(renderer.vertex_buffer)),
                                       VertexBufferRes(renderer.vertex_buffer + 1))
                      /\ renderer' = [renderer EXCEPT
                                        !.vertex_buffer = @ + 1,
                                        !.vertex_buffer_size = required_size * 2]
                      /\ gl' = GLAfterCall("draw_text", isNull, uses_ok)
                 ELSE /\ gl' = GLAfterCall("draw_text", isNull, uses_ok)
                      /\ UNCHANGED << heap, renderer >>
            ELSE /\ gl' = GLAfterCall("draw_text", isNull, uses_ok)
                 /\ UNCHANGED << heap, renderer >>
    /\ calls' = calls + 1
    /\ UNCHANGED << pc, atlasCallVars, atlas, effect_arg >>

(* glyph_renderer_get_vao, glyph_renderer_get_vbo, glyph_renderer_get_shader *)
glyph_renderer_get_vao(r) == r.vao
glyph_renderer_get_vbo(r) == r.vbo
glyph_renderer_get_shader(r) == r.shader

NextRenderer ==
    \/ RendererLoadGLFail
    \/ RendererLoadGLOk
    \/ LoadFontFail
    \/ LoadFontOk
    \/ AllocCharsFail
    \/ AllocCharsOk
    \/ AllocTempFail
    \/ AllocTempOk
    \/ RasterizeMissing
    \/ RasterizeGlyph
    \/ AllocOrderFail
    \/ AllocOrderOk
    \/ CreateImageOk
    \/ CreateImageFail
    \/ PackEmpty
    \/ PackPlace
    \/ PackGrow
    \/ PackGrowFail
    \/ PackWildCrash
    \/ PackRowNullCrash
    \/ FinishAndReturn
    \/ FinishWildCrash
    \/ RendererAtlasFail
    \/ RendererRedChannelFail
    \/ RendererShaderFail
    \/ RendererVertexBufferFail
    \/ RendererCreateOk
    \/ RendererFree
    \/ RendererSetProjection
    \/ RendererUpdateProjection
    \/ RendererDrawText

SpecRenderer == InitRenderer /\ [][NextRenderer]_vars

(***************************************************************************)
(* glyph_renderer_draw_text, character by character, at scale 1             *)
(***************************************************************************)

MaxDrawLen == 2

GLYPHGL_BOLD == 1
GLYPHGL_UNDERLINE == 4
QuestionMark == 63

(* the bytes of the short texts: 'A', the 2-byte lead 0xC3, the continuation
   byte 0xA9 *)
DrawBytes == {65, 195, 169}

(* the lengths of the long texts, all of them 'A's: one glyph more than the
   initial buffer is taken to hold *)
LongTextLens == {1025}

(* the effects bitmasks drawn with: none, bold and underline *)
DrawEffects == {0, GLYPHGL_BOLD + GLYPHGL_UNDERLINE}

(* the atlas entry of a codepoint whose glyph is w wide *)
DrawEntry(cp, k, w, adv) ==
    [codepoint |-> cp, x |-> padding + k * (10 + 2 * padding), y |-> padding,
     width |-> w, height |-> IF w > 0 THEN 12 ELSE 0,
     xoff |-> IF w > 0 THEN 1 ELSE 0, yoff |-> 0, advance |-> adv]

(* the atlas glyph_atlas_create returns for these entries *)
DrawAtlas(entries) ==
    [image |-> [glyph_image_create(GLYPHGL_ATLAS_WIDTH, GLYPHGL_ATLAS_HEIGHT)
                  EXCEPT !.blits =
                    [k \in 1..Len(entries) |->
                        [index |-> k - 1, x |-> entries[k].x, y |-> entries[k].y,
                         width |-> entries[k].width, height |-> entries[k].height]]],
     chars |-> LIVE, entries |-> entries, num_chars |-> Len(entries),
     pixel_height |-> 32]

(* atlases of the charsets "A?", "A" and "A?" of a font whose '?' has no
   outline *)
DrawAtlases ==
    { DrawAtlas(<< DrawEntry(65, 0, 10, 12), DrawEntry(QuestionMark, 1, 10, 12) >>),
      DrawAtlas(<< DrawEntry(65, 0, 10, 12) >>),
      [DrawAtlas(<< DrawEntry(65, 0, 10, 12), DrawEntry(QuestionMark, 1, 0, 8) >>)
          EXCEPT !.image.blits = << [index |-> 0, x |-> padding, y |-> padding,
                                     width |-> 10, height |-> 12] >>] }

(* a renderer glyph_renderer_create has just returned initialized, and a
   draw call about to be made on it *)
InitDraw ==
    /\ pc = "draw_call"
    /\ text \in UNION { [1..n -> DrawBytes] : n \in 0..MaxDrawLen }
                  \cup { [k \in 1..n |-> 65] : n \in LongTextLens }
    /\ atlas \in DrawAtlases
    /\ \E ct \in {GLYPH_ENCODING_UTF8, GLYPH_ENCODING_ASCII} :
          /\ char_type = ct
          /\ renderer = [ZeroRenderer EXCEPT
                            !.initialized = 1, !.texture = LIVE, !.shader = LIVE,
                            !.vao = LIVE, !.vbo = LIVE, !.vertex_buffer = 1,
                            !.vertex_buffer_size = GLYPHGL_VERTEX_BUFFER_SIZE * 4,
                            !.char_type = ct, !.effect = default_effect]
    /\ \E e \in DrawEffects :
          draw = [NoDraw EXCEPT !.effects = e,
                                !.capacity = GLYPHGL_VERTEX_BUFFER_SIZE * 4]
    /\ heap = Alloc(HeapWithGLObjects(Alloc(Alloc(<< >>, CharsRes), ImageRes(0))),
                    VertexBufferRes(1))
    /\ gl = [NoGL EXCEPT !.program_src = << "default_vs", "default_fs" >>]
    /\ effect_arg = "NULL"
    /\ calls = 0
    /\ charset = << >>
    /\ pixel_height = 32
    /\ use_sdf = FALSE
    /\ font_cmap = << >>
    /\ font_glyphs = << >>
    /\ charset_len = 0
    /\ temp_glyphs = << >>
    /\ charset_idx = 0
    /\ ras_i = 0
    /\ total_width = 0
    /\ max_height = 0
    /\ glyph_order = << >>
    /\ atlas_width = 0
    /\ atlas_height = 0
    /\ pen_x = 0
    /\ pen_y = 0
    /\ row_height = 0
    /\ current_row = << >>
    /\ order_idx = 0
    /\ grows = 0
    /\ wild_write = FALSE
    /\ v_in = 0
    /\ v_out = 0
    /\ idx_in = 0
    /\ idx_out = 0
    /\ cp_out = 0
    /\ DecodeIdle

(* what a draw call leaves alone *)
drawFrame ==
    << inputs, fontVars, atlas, createLocals, pow2Vars, decodeVars, text, idx_in,
       idx_out, cp_out, effect_arg, gl, calls >>

(* the guard and the growth check: the call returns at once for a NULL
   renderer; the CPU buffer is reallocated when required_size exceeds
   vertex_buffer_size, and the call returns when that fails *)
DrawBegin ==
    /\ pc = "draw_call"
    /\ \E isNull \in BOOLEAN, realloc_ok \in BOOLEAN :
        LET required_size == RequiredSize(strlen(text))
        IN  IF RendererRejected(isNull)
            THEN /\ pc' = "draw_done"
                 /\ UNCHANGED << heap, renderer, draw >>
            ELSE IF required_size > renderer.vertex_buffer_size
            THEN IF realloc_ok
                 THEN /\ heap' = Alloc(Release(heap, VertexBufferRes(renderer.vertex_buffer)),
                                       VertexBufferRes(renderer.vertex_buffer + 1))
                      /\ renderer' = [renderer EXCEPT
                                        !.vertex_buffer = @ + 1,
                                        !.vertex_buffer_size = required_size * 2]
                      /\ draw' = [draw EXCEPT !.capacity = (required_size * 2) \div 4]
                      /\ pc' = "draw_loop"
                 ELSE /\ pc' = "draw_done"
                      /\ UNCHANGED << heap, renderer, draw >>
            ELSE /\ pc' = "draw_loop"
                 /\ UNCHANGED << heap, renderer, draw >>
    /\ UNCHANGED drawFrame

(* the codepoint at i and the index after it, by the renderer's encoding *)
DrawDecode(i) ==
    IF renderer.char_type = GLYPH_ENCODING_UTF8
    THEN glyph_utf8_decode(text, i)
    ELSE [cp |-> text[i + 1], index |-> i + 1]

(* a lookup without the fallback to '?' *)
DrawLookupNoFallback(cp) == glyph_atlas_find_char(TRUE, atlas, cp)

(* ch = find_char(codepoint); if (!ch) ch = find_char('?') *)
DrawLookup(cp) ==
    IF glyph_atlas_find_char(TRUE, atlas, cp) # NULL
    THEN glyph_atlas_find_char(TRUE, atlas, cp)
    ELSE glyph_atlas_find_char(TRUE, atlas, QuestionMark)

(* the quads one iteration copies into the buffer: none for a missing or
   blank entry, else the glyph, its bold copy and its underline *)
DrawQuads(ch) ==
    IF ch = NULL \/ atlas.entries[ch].width = 0 THEN 0
    ELSE 1 + (IF BitAnd(draw.effects, GLYPHGL_BOLD) # 0 THEN 1 ELSE 0)
           + (IF BitAnd(draw.effects, GLYPHGL_UNDERLINE) # 0 THEN 1 ELSE 0)

(* what one iteration adds to current_x *)
DrawAdvance(ch) ==
    IF ch = NULL THEN atlas.pixel_height \div 2 ELSE atlas.entries[ch].advance

(* the memcpy of the iteration's last quad ends past the CPU buffer *)
DrawOverruns(quads) == (draw.vertex_count + 6 * quads) * 4 > draw.capacity

(* one iteration of the character loop that stays inside the buffer *)
DrawChar ==
    /\ pc = "draw_loop"
    /\ draw.i < strlen(text)
    /\ LET d == DrawDecode(draw.i)
           ch == DrawLookup(d.cp)
       IN  /\ ~DrawOverruns(DrawQuads(ch))
           /\ draw' = [draw EXCEPT
                         !.i = d.index,
                         !.vertex_count = @ + 6 * DrawQuads(ch),
                         !.last = [codepoint |-> d.cp, quads |-> DrawQuads(ch),
                                   advance |-> DrawAdvance(ch)]]
    /\ UNCHANGED << pc, heap, renderer, drawFrame >>

(* an iteration stores past the CPU buffer and the process dies of it *)
DrawOverrunCrash ==
    /\ pc = "draw_loop"
    /\ draw.i < strlen(text)
    /\ DrawOverruns(DrawQuads(DrawLookup(DrawDecode(draw.i).cp)))
    /\ pc' = "crashed"
    /\ UNCHANGED << draw, heap, renderer, drawFrame >>

(* the store lands in mapped memory; what the call does from there on is not
   followed *)
DrawOverrunContinue ==
    /\ pc = "draw_loop"
    /\ draw.i < strlen(text)
    /\ DrawOverruns(DrawQuads(DrawLookup(DrawDecode(draw.i).cp)))
    /\ pc' = "overrun"
    /\ UNCHANGED << draw, heap, renderer, drawFrame >>

(* the loop is over: vertex_count * 4 * sizeof(float) bytes go to the VBO *)
DrawUpload ==
    /\ pc = "draw_loop"
    /\ draw.i >= strlen(text)
    /\ draw' = [draw EXCEPT !.uploaded = draw.vertex_count * 4 * 4]
    /\ pc' = "draw_done"
    /\ UNCHANGED << heap, renderer, drawFrame >>

NextDraw ==
    \/ DrawBegin
    \/ DrawChar
    \/ DrawOverrunCrash
    \/ DrawOverrunContinue
    \/ DrawUpload

SpecDraw == InitDraw /\ [][NextDraw]_vars

(***************************************************************************)
(* Properties                                                               *)
(***************************************************************************)

(* the entries of the returned atlas that hold a glyph *)
NonEmptyEntries == {k \in 1..Len(atlas.entries) : atlas.entries[k].width > 0}

EntryInsideImage(e, image) ==
    /\ 0 <= e.x
    /\ e.x + e.width <= image.width
    /\ 0 <= e.y
    /\ e.y + e.height <= image.height

(* C1: in every atlas glyph_atlas_create returns, every entry with
   width > 0 lies inside the image: 0 <= x, x + width <= image.width,
   0 <= y, y + height <= image.height, y being the value after the row's
   baseline shift. *)
C1_EntriesInsideImage ==
    Returned => \A k \in NonEmptyEntries : EntryInsideImage(atlas.entries[k], atlas.image)

RectsDisjoint(a, b) ==
    \/ a.x + a.width <= b.x
    \/ b.x + b.width <= a.x
    \/ a.y + a.height <= b.y
    \/ b.y + b.height <= a.y

(* C2: in every atlas glyph_atlas_create returns, the rectangles
   [x, x + width) x [y, y + height) of two distinct entries with width > 0
   are disjoint, entries of consecutive rows after the baseline shift
   included. *)
C2_EntriesDisjoint ==
    Returned =>
        \A k \in NonEmptyEntries : \A m \in NonEmptyEntries :
            k # m => RectsDisjoint(atlas.entries[k], atlas.entries[m])

CreateEnded == pc \in {"returned", "failed", "crashed", "freed"}

InitialSize == AtLeast(EstimateSize(total_width, max_height), GLYPHGL_ATLAS_WIDTH)

(* the atlas was doubled at least once *)
HasGrown == grows > 0 /\ atlas_width > InitialSize

(* the temp glyph of C index i was placed by the last packing pass: its
   entry has the glyph's size, a position at or behind the first pen
   position, and the image holds exactly one copy of the bitmap, at the
   entry's rectangle *)
GlyphPlaced(i) ==
    LET e == atlas.entries[i + 1]
        g == temp_glyphs[i + 1]
        copies == {b \in 1..Len(atlas.image.blits) : atlas.image.blits[b].index = i}
    IN  /\ e.width = g.width
        /\ e.height = g.height
        /\ e.x >= padding
        /\ e.y >= padding
        /\ Cardinality(copies) = 1
        /\ \A b \in copies :
              /\ atlas.image.blits[b].x = e.x
              /\ atlas.image.blits[b].y = e.y
              /\ atlas.image.blits[b].width = e.width
              /\ atlas.image.blits[b].height = e.height

EveryGlyphPlaced ==
    \A i \in 0..(charset_len - 1) :
        ~IsEmptyGlyph(temp_glyphs[i + 1]) => GlyphPlaced(i)

(* the atlas height that holds every glyph in a row of its own *)
RECURSIVE HeightNeeded(_, _)
HeightNeeded(tg, k) ==
    IF k = 0 THEN 2 * padding
    ELSE tg[k].height + 2 * padding + HeightNeeded(tg, k - 1)

(* how often h can still be doubled before it reaches need *)
RECURSIVE DoublingsLeft(_, _)
DoublingsLeft(h, need) ==
    IF h >= need THEN 0 ELSE 1 + DoublingsLeft(2 * h, need)

(* a measure of the work glyph_atlas_create has left: the phases still to
   come, the loop iterations still to run and, in the packing loop, the
   doublings still possible, each of them worth a full pass over the
   charset *)
Rank ==
    CASE pc = "load_font" -> 5 * RankBase
      [] pc = "alloc_chars" -> 4 * RankBase
      [] pc = "alloc_temp" -> 3 * RankBase
      [] pc = "rasterize" -> 2 * RankBase + (charset_len - ras_i)
      [] pc = "create_image" -> RankBase
      [] pc = "pack" ->
            1 + (charset_len - order_idx)
              + (charset_len + 1)
                  * DoublingsLeft(atlas_height, HeightNeeded(temp_glyphs, charset_len))
      [] OTHER -> 0

(* C3: glyph_atlas_create ends for every set of glyph sizes, also when the
   glyphs need far more room than the minimum atlas: every step of the call
   lowers a non-negative measure in which a doubling costs one of the
   finitely many doublings left, so the packing loop is restarted only
   finitely often; and in the atlas returned afterwards every non-empty
   glyph is placed. *)
C3_GrowthTerminates ==
    /\ [][(~CreateEnded) => (Rank' < Rank /\ Rank' >= 0)]_vars
    /\ [](pc = "pack" => (order_idx <= charset_len /\ Rank < RankBase))
    /\ [](Returned => EveryGlyphPlaced)

C3_Witness ==
    /\ Returned
    /\ HasGrown
    /\ \E i \in 0..(charset_len - 1) : ~IsEmptyGlyph(temp_glyphs[i + 1])

(* the codepoints of the charset in order, one per decoding step *)
RECURSIVE DecodeFrom(_, _)
DecodeFrom(str, idx) ==
    IF idx < strlen(str)
    THEN LET d == glyph_atlas_utf8_decode(str, idx)
         IN  << d.cp >> \o DecodeFrom(str, d.index)
    ELSE << >>

CharsetCodepoints ==
    IF char_type = GLYPH_ENCODING_UTF8 THEN DecodeFrom(charset, 0) ELSE charset

EntryCodepoints == {atlas.entries[k].codepoint : k \in 1..Len(atlas.entries)}

(* C4 as stated: the num_chars of the returned atlas is the number of
   distinct codepoints of the charset. *)
C4_NumCharsDistinct ==
    Returned => atlas.num_chars = Cardinality(EntryCodepoints)

(* C4 as amended: the num_chars of the returned atlas is the number of
   codepoints the charset decodes to, each occurrence counted, and the
   entries hold these codepoints in charset order, one entry per
   occurrence. *)
C4_NumCharsCounted ==
    Returned =>
        /\ atlas.num_chars = Len(CharsetCodepoints)
        /\ Len(atlas.entries) = atlas.num_chars
        /\ \A k \in 1..atlas.num_chars :
              atlas.entries[k].codepoint = CharsetCodepoints[k]

C4_Witness ==
    /\ Returned
    /\ atlas.num_chars = 3
    /\ Cardinality(EntryCodepoints) = 1

(* the codepoints the font was asked for and does not map, space excepted *)
UnmappedCodepoints ==
    {cp \in DOMAIN font_cmap : font_cmap[cp] = NOTDEF /\ cp # SPACE}

(* C5: for every codepoint of the charset the font has no glyph for, the
   returned atlas has an entry glyph_atlas_find_char returns, with
   width = 0 and advance = (int)(pixel_height * 0.5). *)
C5_MissingGlyphEntry ==
    Returned =>
        \A cp \in UnmappedCodepoints :
            LET r == glyph_atlas_find_char(TRUE, atlas, cp)
            IN  /\ r # NULL
                /\ atlas.entries[r].width = 0
                /\ atlas.entries[r].advance = FallbackAdvance(pixel_height)

(* codepoints looked up: those a charset of the model can hold and some it
   cannot *)
ProbeCodepoints == CharsetBytes \cup {0, 63, 66, 192, 193, 224, REPLACEMENT}

(* C6: glyph_atlas_find_char returns NULL for a codepoint no entry of the
   atlas has, and for a NULL, failed or freed atlas; when an entry has the
   codepoint, it returns an entry with that codepoint. *)
C6_FindChar ==
    \A cp \in ProbeCodepoints :
        /\ glyph_atlas_find_char(FALSE, atlas, cp) = NULL
        /\ pc \in {"failed", "freed"} => glyph_atlas_find_char(TRUE, atlas, cp) = NULL
        /\ Returned =>
              LET r == glyph_atlas_find_char(TRUE, atlas, cp)
              IN  IF cp \in EntryCodepoints
                  THEN r # NULL /\ atlas.entries[r].codepoint = cp
                  ELSE r = NULL

C6_Witness ==
    /\ Returned
    /\ atlas.num_chars = 3
    /\ glyph_atlas_find_char(TRUE, atlas, 65) = 3
    /\ glyph_atlas_find_char(TRUE, atlas, 66) = NULL

(* C7: an atlas built for the charset " " has num_chars = 1 and one entry
   with width = 0 and advance > 0, whether or not the font maps the space. *)
C7_SpaceOnly ==
    (Returned /\ charset = << SPACE >>) =>
        /\ atlas.num_chars = 1
        /\ atlas.entries[1].width = 0
        /\ atlas.entries[1].advance > 0

(* C8: glyph_atlas__next_pow2(v) is the smallest power of two >= v for
   every v of [1, 2^30]; next_pow2(1) = 1, next_pow2(2048) = 2048 and
   next_pow2(2049) = 4096. *)
C8_NextPow2 ==
    pc = "pow2_done" =>
        /\ IsPow2(v_out)
        /\ v_out >= v_in
        /\ v_out \div 2 < v_in
        /\ v_in = 1 => v_out = 1
        /\ v_in = 2048 => v_out = 2048
        /\ v_in = 2049 => v_out = 4096

C8_Witness == pc = "pow2_done" /\ v_in = 2049 /\ v_out = 4096

(* C9: width and height of the image of every atlas returned successfully
   are powers of two and at least the configured minimum, for the size
   chosen first and after every doubling. *)
C9_PowerOfTwoSize ==
    (pc = "pack" \/ Returned) =>
        /\ IsPow2(atlas.image.width)
        /\ IsPow2(atlas.image.height)
        /\ atlas.image.width >= GLYPHGL_ATLAS_WIDTH
        /\ atlas.image.height >= GLYPHGL_ATLAS_HEIGHT
        /\ atlas.image.width = atlas_width
        /\ atlas.image.height = atlas_height

C9_Witness ==
    /\ Returned
    /\ InitialSize = GLYPHGL_ATLAS_WIDTH
    /\ grows = 2
    /\ atlas.image.width = 4 * GLYPHGL_ATLAS_WIDTH

(* C10: on every failure path of glyph_atlas_create (font not loaded;
   character array, temp glyph array or sort-order array not allocated) the
   returned atlas is the zero-initialized struct: chars NULL, image.data
   NULL, num_chars 0 and pixel_height 0. *)
C10_FailureIsZero ==
    Failed =>
        /\ atlas.chars = NULL
        /\ atlas.image.data = NULL
        /\ atlas.num_chars = 0
        /\ atlas.pixel_height = 0

(* glyph_image_create came back without a buffer and the memset that
   follows it stored through the null data pointer *)
NullImageWritten == pc = "crashed" /\ atlas.image.data = NULL

(* C11: when the image buffer cannot be allocated, for the first image or
   for a doubled one, glyph_atlas_create does not write through the null
   image pointer, and it returns an empty atlas: chars and image.data both
   NULL, the character array released. *)
C11_ImageAllocFailure ==
    /\ ~NullImageWritten
    /\ (pc \in {"returned", "failed"} /\ atlas.image.data = NULL) =>
          atlas.chars = NULL

(* the heap blocks that hold glyph bitmaps *)
BitmapBlocks == {r \in DOMAIN heap : r[1] \in {"coverage", "sdf"}}

(* C12: when glyph_atlas_create returns early because an allocation failed
   after glyphs were rasterized (glyph_order not allocated), every glyph
   bitmap produced so far has been released. *)
C12_BitmapsReleasedOnFailure ==
    Failed => \A r \in BitmapBlocks : heap[r] = 1

(* the rasterizer produced a coverage bitmap for the charset entry of C
   index i *)
CoverageProduced(i) ==
    LET cp == CharsetCodepoints[i + 1]
        gi == font_cmap[cp]
    IN  ~(gi = NOTDEF /\ cp # SPACE) /\ font_glyphs[gi].bitmap

(* the blocks a successful call obtains: font, the arrays it allocated,
   one coverage bitmap per rasterized glyph with an outline, with use_sdf
   one SDF per temp glyph that holds a bitmap, and one image per size *)
BlocksObtained ==
    {FontRes, CharsRes, TempGlyphsRes, GlyphOrderRes}
        \cup {ImageRes(k) : k \in 0..grows}
        \cup {CoverageRes(i) : i \in {j \in 0..(charset_len - 1) : CoverageProduced(j)}}
        \cup {SdfRes(i) : i \in {j \in 0..(charset_len - 1) :
                                     use_sdf /\ temp_glyphs[j + 1].bitmap}}

(* C13: when glyph_atlas_create returns an atlas, after any number of
   doublings, every temporary block has been released exactly once: each
   coverage bitmap (the one replaced by its SDF included), each SDF bitmap,
   temp_glyphs, glyph_order, current_row, the font and every image a
   doubling abandoned; the final image and the character array, and nothing
   else, are still allocated. *)
C13_TemporariesReleased ==
    Returned =>
        /\ BlocksObtained \subseteq DOMAIN heap
        /\ DOMAIN heap \subseteq BlocksObtained \cup {CurrentRowRes}
        /\ \A r \in DOMAIN heap :
              heap[r] = IF r \in {CharsRes, ImageRes(grows)} THEN 0 ELSE 1
        /\ atlas.chars = LIVE
        /\ atlas.image.data = LIVE

C13_Witness ==
    /\ Returned
    /\ use_sdf
    /\ grows >= 1
    /\ Allocated(heap, CurrentRowRes)
    /\ \E i \in 0..(charset_len - 1) : Allocated(heap, SdfRes(i))
    /\ \E i \in 0..(charset_len - 1) :
          Allocated(heap, CoverageRes(i)) /\ ~Allocated(heap, SdfRes(i))

(* the set of elements of a list *)
Range(list) == {list[k] : k \in 1..Len(list)}

(* C14: decoding a well-formed UTF-8 charset with glyph_atlas_utf8_decode
   from index 0 until the index reaches the length yields exactly the
   codepoints the string encodes, in order, so re-encoding the decoded list
   gives the string and the same set of codepoints back; the counting loop
   and the rasterization loop decode the same number of codepoints, and the
   rasterization loop ends with its index at the end of the string. *)
C14_CharsetRoundTrip ==
    /\ pc = "utf8_decode" =>
          /\ charset_len = Len(cps)
          /\ (ras_i < charset_len <=> charset_idx < strlen(charset))
          /\ decoded = SubSeq(cps, 1, ras_i)
    /\ pc = "utf8_decoded" =>
          /\ decoded = cps
          /\ Range(decoded) = Range(cps)
          /\ Utf8EncodeAll(decoded) = charset
          /\ Len(decoded) = charset_len
          /\ charset_idx = strlen(charset)

C14_Witness ==
    /\ pc = "utf8_decoded"
    /\ decoded = << 36, 2047, MaxCodepoint >>
    /\ strlen(charset) = 7

(* C15: for every string and every index below its length,
   glyph_utf8_decode leaves the index strictly greater than it found it,
   and returns the codepoint of the bytes it passed, or 0xFFFD for an
   invalid lead byte, an invalid continuation byte or an incomplete
   sequence. *)
C15_DecodeAdvances ==
    (pc = "text_done" /\ idx_in < strlen(text)) =>
        /\ idx_out > idx_in
        /\ \/ cp_out = REPLACEMENT
           \/ cp_out = glyph_atlas_utf8_decode(text, idx_in).cp

(* glyph_renderer_create has ended and no call was made on the renderer *)
RendererCreateEnded == pc \in {"r_done", "crashed"} /\ calls = 0

(* the six resources of an initialized renderer *)
RendererResources ==
    {CharsRes, ImageRes(grows), TextureRes, ProgramRes, VaoRes, VboRes,
     VertexBufferRes(renderer.vertex_buffer)}

(* C16: glyph_renderer_create sets initialized to 1 only when the atlas, the
   texture, the program, the VAO, the VBO and the vertex buffer all exist; on
   every failure path it returns with initialized = 0 and every block or
   object obtained before the failure released exactly once *)
C16_CreateAllOrNothing ==
    RendererCreateEnded =>
        IF renderer.initialized = 1
        THEN \A r \in RendererResources : Usable(heap, r)
        ELSE /\ pc = "r_done"
             /\ \A r \in DOMAIN heap : heap[r] = 1

(* a call has just returned at its guard *)
CallRejected == gl.last.null \/ renderer.initialized = 0

(* C17: in every sequence of create, free, draw and projection calls on one
   renderer nothing is released twice and nothing is used after its release;
   a call on a NULL, never-initialized, failed or freed renderer changes
   neither the renderer nor any resource *)
C17_NoDoubleReleaseNoUseAfterFree ==
    /\ [](\A r \in DOMAIN heap : heap[r] <= 1)
    /\ [](~gl.misuse)
    /\ [][(pc = "r_done" /\ calls' = calls + 1 /\ (gl'.last.null \/ renderer.initialized = 0))
            => (renderer' = renderer /\ heap' = heap /\ atlas' = atlas)]_vars

C17_Witness ==
    /\ pc = "r_done"
    /\ calls = MaxCalls
    /\ renderer.initialized = 0
    /\ Allocated(heap, VertexBufferRes(1))
    /\ \A r \in DOMAIN heap : heap[r] = 1
    /\ gl.last.op = "draw_text"
    /\ ~gl.last.null

(* C18: a renderer created with glyph_effect_create_custom(vs, fs) compiles
   its program from vs and fs *)
C18_CustomShadersCompiled ==
    (pc = "r_done" /\ effect_arg = "custom" /\ gl.program_src # << >>)
        => gl.program_src = << "user_vs", "user_fs" >>

(* C19: the handle getters return 0 for a renderer whose creation failed or
   that was freed, and the live handle for an initialized renderer *)
C19_GettersZeroWhenInvalid ==
    pc = "r_done" =>
        IF renderer.initialized = 0
        THEN /\ glyph_renderer_get_vao(renderer) = 0
             /\ glyph_renderer_get_vbo(renderer) = 0
             /\ glyph_renderer_get_shader(renderer) = 0
        ELSE /\ glyph_renderer_get_vao(renderer) # 0 /\ Usable(heap, VaoRes)
             /\ glyph_renderer_get_vbo(renderer) # 0 /\ Usable(heap, VboRes)
             /\ glyph_renderer_get_shader(renderer) # 0 /\ Usable(heap, ProgramRes)

(* two entries keep the padding between them along x or along y *)
RectsPadded(a, b) ==
    \/ a.x + a.width + padding <= b.x
    \/ b.x + b.width + padding <= a.x
    \/ a.y + a.height + padding <= b.y
    \/ b.y + b.height + padding <= a.y

(* an entry keeps the padding to each edge of the image *)
EntryPaddedInsideImage(e, image) ==
    /\ padding <= e.x
    /\ e.x + e.width + padding <= image.width
    /\ padding <= e.y
    /\ e.y + e.height + padding <= image.height

(* C20: in every atlas glyph_atlas_create returns, two distinct entries with
   width > 0 are at least 4 pixels apart along x or along y, and each such
   entry is at least 4 pixels away from every edge of the image *)
C20_PaddingAround ==
    Returned =>
        \A k \in NonEmptyEntries :
            /\ EntryPaddedInsideImage(atlas.entries[k], atlas.image)
            /\ \A m \in NonEmptyEntries :
                k # m => RectsPadded(atlas.entries[k], atlas.entries[m])

(* x, y, width, height, xoff, yoff of an entry *)
Placement(e) ==
    [x |-> e.x, y |-> e.y, width |-> e.width, height |-> e.height,
     xoff |-> e.xoff, yoff |-> e.yoff]

(* the result of one pass from scratch with the final dimensions *)
FromScratch ==
    SinglePass(SinglePassStart(charset_len), glyph_order, temp_glyphs,
               atlas.image.width, atlas.image.height)

(* C21: when packing grew the atlas, the returned placement of every entry
   and the image contents equal those of a single pass started from scratch
   with the final dimensions; nothing of an abandoned attempt survives *)
C21_RestartFromScratch ==
    (Returned /\ grows >= 1) =>
        /\ atlas.image.width = atlas_width
        /\ atlas.image.height = atlas_height
        /\ FromScratch.fits
        /\ \A k \in 1..charset_len :
              Placement(atlas.entries[k]) = FromScratch.entries[k]
        /\ atlas.image.blits = FromScratch.blits

(* the atlas grew after a row had been closed and two glyphs were placed
   again *)
C21_Witness ==
    /\ Returned
    /\ grows = 1
    /\ atlas.image.width = 2 * GLYPHGL_ATLAS_WIDTH
    /\ Len(atlas.image.blits) = 3
    /\ \A k \in NonEmptyEntries : atlas.entries[k].height = 1030

(* the blits into the returned image that copy the bitmap of entry k *)
BlitsOf(k) == {b \in 1..Len(atlas.image.blits) : atlas.image.blits[b].index = k - 1}

(* two rectangles share a pixel *)
RectsOverlap(a, b) == ~RectsDisjoint(a, b)

(* C22: in the returned atlas the pixels of every non-empty entry equal its
   glyph bitmap: the glyph is blitted exactly once into the final image, at
   the rectangle its entry records and inside the image, no later blit
   stores into that rectangle, and nothing is drawn outside the entries *)
C22_PixelsMatchEntries ==
    Returned =>
        /\ \A k \in NonEmptyEntries :
              /\ Cardinality(BlitsOf(k)) = 1
              /\ \A b \in BlitsOf(k) :
                    /\ Placement(atlas.entries[k]).x = atlas.image.blits[b].x
                    /\ Placement(atlas.entries[k]).y = atlas.image.blits[b].y
                    /\ atlas.entries[k].width = atlas.image.blits[b].width
                    /\ atlas.entries[k].height = atlas.image.blits[b].height
                    /\ EntryInsideImage(atlas.entries[k], atlas.image)
                    /\ \A c \in 1..Len(atlas.image.blits) :
                          c > b => ~RectsOverlap(atlas.image.blits[b], atlas.image.blits[c])
        /\ \A b \in 1..Len(atlas.image.blits) :
              atlas.image.blits[b].index + 1 \in NonEmptyEntries

(* glyph_order has been computed and is in use *)
OrderComputed == pc \in {"create_image", "pack"}

(* C23: the packing order is a permutation of the charset indices, sorted by
   bitmap height descending; glyphs of equal height keep their charset
   order *)
C23_OrderSortedStable ==
    OrderComputed =>
        /\ Len(glyph_order) = charset_len
        /\ Range(glyph_order) = 0..(charset_len - 1)
        /\ \A a \in 1..charset_len : \A b \in 1..charset_len :
              a < b =>
                /\ temp_glyphs[glyph_order[a] + 1].height
                      >= temp_glyphs[glyph_order[b] + 1].height
                /\ (temp_glyphs[glyph_order[a] + 1].height
                      = temp_glyphs[glyph_order[b] + 1].height)
                      => glyph_order[a] < glyph_order[b]

(* a taller glyph between two glyphs of equal height was moved to the front *)
C23_Witness ==
    /\ pc = "pack"
    /\ charset_len = 3
    /\ glyph_order = << 1, 0, 2 >>
    /\ temp_glyphs[1].height = temp_glyphs[3].height
    /\ temp_glyphs[1].height > 0

(* this step closes the current row: the loop meets a glyph that does not
   fit the row, or the loop is over *)
RowClosing ==
    /\ pc = "pack"
    /\ IF order_idx < charset_len
       THEN ~IsEmptyGlyph(PackGlyph) /\ RowIsFull
       ELSE TRUE
    /\ pc' \in {"pack", "returned"}

(* the largest yoff among the glyphs of a row *)
LargestYoff(row) == MaxOf({temp_glyphs[row[r] + 1].yoff : r \in 1..Len(row)})

(* y + yoff of the entry of glyph i after the step *)
BaselineAfter(i) == atlas'.entries[i + 1].y + atlas'.entries[i + 1].yoff

(* C24 as stated: the glyphs of a closed row share y + yoff, and each final y
   is the row's pen_y plus max_yoff - yoff, max_yoff being the largest yoff
   of the row *)
C24_SharedBaselineLargestYoff ==
    [][RowClosing =>
          \A a \in Range(current_row) :
              /\ \A b \in Range(current_row) : BaselineAfter(a) = BaselineAfter(b)
              /\ atlas'.entries[a + 1].y
                    = pen_y + LargestYoff(current_row) - temp_glyphs[a + 1].yoff]_vars

(* C24, amended: the glyphs of a closed row share y + yoff, and each final y
   is the row's pen_y plus max_yoff - yoff, max_yoff being the largest of 0
   and the yoffs of the row *)
C24_SharedBaseline ==
    [][RowClosing =>
          \A a \in Range(current_row) :
              /\ \A b \in Range(current_row) : BaselineAfter(a) = BaselineAfter(b)
              /\ atlas'.entries[a + 1].y
                    = pen_y + MaxOf({0, LargestYoff(current_row)})
                        - temp_glyphs[a + 1].yoff]_vars

(* the returned atlas ends with a row of two glyphs, one with a positive and
   one with a negative yoff, on one baseline *)
C24_Witness ==
    /\ Returned
    /\ Len(current_row) = 2
    /\ atlas.entries[current_row[1] + 1].yoff < 0
    /\ atlas.entries[current_row[2] + 1].yoff > 0
    /\ atlas.entries[current_row[1] + 1].y + atlas.entries[current_row[1] + 1].yoff
          = atlas.entries[current_row[2] + 1].y + atlas.entries[current_row[2] + 1].yoff

(* C25: glyph_renderer_draw_text terminates for every text: every iteration
   of the character loop strictly increases the index *)
C25_LoopIndexIncreases ==
    [][(pc = "draw_loop" /\ pc' = "draw_loop") => draw'.i > draw.i]_vars

(* C26: glyph_renderer_draw_text never writes past the end of the CPU vertex
   buffer, and a failed reallocation leaves vertex_buffer and
   vertex_buffer_size unchanged *)
C26_VertexBufferNotOverrun ==
    /\ [](pc \in {"draw_loop", "draw_done"} => draw.vertex_count * 4 <= draw.capacity)
    /\ [](pc \notin {"overrun", "crashed"})
    /\ [][(pc = "draw_call" /\ pc' = "draw_done") => renderer' = renderer]_vars

(* sizeof(float) * GLYPHGL_VERTEX_BUFFER_SIZE, the size of the VBO *)
VboBytes == 4 * GLYPHGL_VERTEX_BUFFER_SIZE

(* C27: the bytes a draw call uploads with glBufferSubData never exceed the
   size the VBO was allocated with *)
C27_UploadFitsVbo == draw.uploaded <= VboBytes

(* the first entry of the atlas with the codepoint, 0 when there is none *)
FirstEntry(cp) ==
    IF \E k \in 1..atlas.num_chars : atlas.entries[k].codepoint = cp
    THEN CHOOSE k \in 1..atlas.num_chars :
            /\ atlas.entries[k].codepoint = cp
            /\ \A m \in 1..(k - 1) : atlas.entries[m].codepoint # cp
    ELSE 0

(* the entry the claim names for a codepoint: its own, else that of '?' *)
EntryOrFallback(cp) ==
    IF FirstEntry(cp) # 0 THEN FirstEntry(cp) ELSE FirstEntry(QuestionMark)

(* the quads asked for by the effects: the glyph, bold, underline *)
QuadsPerGlyph ==
    1 + (IF draw.effects \in {1, 3, 5, 7} THEN 1 ELSE 0)
      + (IF draw.effects \in {4, 5, 6, 7} THEN 1 ELSE 0)

(* C28: each iteration looks the codepoint up and falls back to '?'; without
   an entry it emits nothing and advances by pixel_height / 2; with an entry
   of width 0 it emits nothing and advances by the entry's advance; with an
   entry of width > 0 it emits 6 vertices per quad and advances by the
   entry's advance *)
C28_DrawLookupAndAdvance ==
    [][(pc = "draw_loop" /\ pc' = "draw_loop") =>
          LET e == EntryOrFallback(draw'.last.codepoint)
              emitted == draw'.vertex_count - draw.vertex_count
          IN  IF e = 0
              THEN emitted = 0 /\ draw'.last.advance = atlas.pixel_height \div 2
              ELSE IF atlas.entries[e].width = 0
              THEN emitted = 0 /\ draw'.last.advance = atlas.entries[e].advance
              ELSE /\ emitted = 6 * QuadsPerGlyph
                   /\ draw'.last.advance = atlas.entries[e].advance]_vars

(* a codepoint without an entry was drawn with the glyph of '?', bold and
   underlined *)
C28_Witness ==
    /\ pc = "draw_done"
    /\ draw.last.codepoint = 195
    /\ draw.last.quads = 3
    /\ draw.uploaded = 2 * 18 * 16

(* C29: while a UTF-8 charset is counted, no glyph_atlas_utf8_decode call
   has read a byte after the terminator (a call that did either ended the
   process or stored an index beyond the terminator) and the index never
   exceeds the length of the charset *)
C29_DecodeStaysInCharset ==
    /\ pc \in {"count_loop", "counted"}
    /\ charset_idx <= strlen(charset)

====
